---- MODULE Spec2Model ----
(***************************************************************************)
(* The feature-selection notebook (src/index.ipynb) as a state machine.    *)
(*                                                                         *)
(* State: the kernel's namespace (ns, bound), the position of the run     *)
(* (pc, the sweep's loop index, the elimination loop inside RFECV), what   *)
(* was printed (out) and every estimator call made so far (calls).         *)
(*                                                                         *)
(* Numbers.  Table cells are exact rationals: a cell is num/s, where num   *)
(* is an integer and s*s = s2[1]/s2[2] is the square of the column's       *)
(* scale.  Raw columns have s2 = <<1,1>>; a standardized column has        *)
(* num = n*x - Sum(x) and s2 = <<Sum(num^2), n>>, which is (x - mean)/std  *)
(* with the population standard deviation; products multiply both parts.  *)
(* Variances and correlations of such columns are rationals, so every      *)
(* comparison the selectors make is decided exactly.                       *)
(*                                                                         *)
(* What least squares and cross-validation return as real numbers is not   *)
(* computed: Numeric stands for it, a fixed function of the inputs of the  *)
(* call (same inputs, same result).  mutual_info_regression is randomized  *)
(* (random_state=None): its scores also depend on rng, the draw of the     *)
(* global random generator.                                                *)
(***************************************************************************)
EXTENDS Integers, Sequences, FiniteSets

VARIABLES file, perm, rng, pc, halted, failed, reruns, bound, ns, out,
          calls, nextId, sweep_i, rfe_loop

vars == <<file, perm, rng, pc, halted, failed, reruns, bound, ns, out,
          calls, nextId, sweep_i, rfe_loop>>

(***************************************************************************)
(* Bounds of the model.                                                    *)
(***************************************************************************)
\* rows of the data file
NumRows == 7
\* draws of the global random generator
NumSeeds == 2
\* shuffles train_test_split may have drawn
NumShuffles == 2
\* cells the user runs again after the last cell
MaxReruns == 1

(***************************************************************************)
(* Generic helpers.                                                        *)
(***************************************************************************)
None == [kind |-> "None"]

Range(s) == {s[i] : i \in DOMAIN s}

RECURSIVE SeqSum(_)
SeqSum(s) == IF s = <<>> THEN 0 ELSE Head(s) + SeqSum(Tail(s))

RECURSIVE Flatten(_)
Flatten(ss) == IF ss = <<>> THEN <<>> ELSE Head(ss) \o Flatten(Tail(ss))

IndexOf(s, x) == CHOOSE i \in DOMAIN s : s[i] = x

Abs(x) == IF x < 0 THEN -x ELSE x

\* a/b < c/d for a, c >= 0 and b, d > 0, by Euclid's algorithm on the
\* continued fractions, so that no product leaves the machine integers
RECURSIVE FracLess(_, _, _, _)
FracLess(a, b, c, d) ==
    LET qa == a \div b
        qc == c \div d
        ra == a % b
        rc == c % d
    IN  IF qa # qc THEN qa < qc
        ELSE IF rc = 0 THEN FALSE
        ELSE IF ra = 0 THEN TRUE
        ELSE FracLess(d, rc, b, ra)

(***************************************************************************)
(* The input file diabetes.tab.txt: a header row and one row per patient.  *)
(* The real file is not part of the repository; the model reads tables     *)
(* built from a pool of small-integer patient profiles.                    *)
(***************************************************************************)
FileColumns ==
    <<"AGE", "SEX", "BMI", "BP", "S1", "S2", "S3", "S4", "S5", "S6", "Y">>

Pool ==
    << <<2, 2, 2, 2, 0, 0, 0, 1, 2, 2, 3>>,
       <<1, 1, 0, 0, 1, 1, 2, 0, 0, 0, 1>>,
       <<0, 1, 1, 1, 2, 2, 1, 2, 1, 1, 2>>,
       <<1, 2, 0, 2, 2, 0, 0, 0, 2, 1, 0>> >>

\* every profile occurs once, the remaining rows repeat the last two
Datasets ==
    LET free == NumRows - Len(Pool)
        tails == {t \in [1..free -> (Len(Pool) - 1)..Len(Pool)] :
                     \A i \in 1..(free - 1) : t[i] <= t[i + 1]}
    IN  {[i \in 1..NumRows |->
             IF i <= Len(Pool) THEN Pool[i] ELSE Pool[t[i - Len(Pool)]]] :
         t \in tails}

\* the shuffles of 1..n the split may have drawn (random_state fixes one)
Shuffles(n) ==
    {[i \in 1..n |-> (((1 + 2 * (b % 2)) * (i - 1) + b) % n) + 1] :
        b \in 0..(NumShuffles - 1)}

\* a file as read_csv finds it: the header, the rows, and the cells that
\* hold text instead of a number (a cell's number is then the code of
\* its token)
WellFormed(rows) == [header |-> FileColumns, rows |-> rows, text |-> {}]

Files == {WellFormed(d) : d \in Datasets}

BaseRows ==
    [i \in 1..NumRows |-> IF i <= Len(Pool) THEN Pool[i] ELSE Pool[Len(Pool)]]

\* the file without the column called name
WithoutColumn(name) ==
    LET keep == SelectSeq([j \in 1..Len(FileColumns) |-> j],
                          LAMBDA j : FileColumns[j] # name)
    IN  [header |-> [k \in 1..Len(keep) |-> FileColumns[keep[k]]],
         rows |-> [i \in 1..NumRows |->
                      [k \in 1..Len(keep) |-> BaseRows[i][keep[k]]]],
         text |-> {}]

\* the file with text in the given cells
WithText(cells) == [WellFormed(BaseRows) EXCEPT !.text = cells]

\* the rows a single text cell is put in: the first row is a test row
\* under one shuffle and a training row under another
TextRows == {1}

\* the malformed files: a required column is missing, one cell of SEX, of
\* another predictor or of the target is text, or SEX is coded in text
MalformedFiles ==
    {WithoutColumn(name) : name \in {"SEX", "Y"}}
        \cup {WithText({<<r, name>>}) :
                  r \in TextRows, name \in {"SEX", "BMI", "Y"}}
        \cup {WithText({<<r, "SEX">> : r \in 1..NumRows})}

(***************************************************************************)
(* pandas / numpy values.  columns and src say where each column and row   *)
(* comes from (src: the row's position in the file); index is the pandas   *)
(* row label.                                                              *)
(***************************************************************************)
Table(kind, columns, index, src, num, s2) ==
    [kind |-> kind, columns |-> columns, index |-> index, src |-> src,
     num |-> num, s2 |-> s2]

Series(name, index, src, val) ==
    [kind |-> "Series", name |-> name, index |-> index, src |-> src,
     val |-> val]

NRows(T) == Len(T.src)
NCols(T) == Len(T.columns)

ColumnOf(T, j) == [i \in 1..NRows(T) |-> T.num[i][j]]

\* pd.read_csv: the header names the columns, the index is 0..n-1
ReadCsv(f) ==
    Table("DataFrame", f.header,
          [i \in 1..Len(f.rows) |-> i - 1], [i \in 1..Len(f.rows) |-> i],
          f.rows, [j \in 1..Len(f.header) |-> <<1, 1>>])

\* the variant for which no cell is text
HasText_never(src, names) == FALSE

\* some cell of the rows src and the columns names holds text, which no
\* conversion to a number accepts
HasText(src, names) ==
    \E i \in 1..Len(src) :
        \E j \in 1..Len(names) : <<src[i], names[j]>> \in file.text

\* the column called name was read as text (dtype object)
IsObjectColumn(name) == \E c \in file.text : c[2] = name

\* T.iloc[:, js] for a sequence js of column positions
ILocCols(T, js) ==
    [T EXCEPT !.columns = [k \in 1..Len(js) |-> T.columns[js[k]]],
              !.num = [i \in 1..NRows(T) |->
                          [k \in 1..Len(js) |-> T.num[i][js[k]]]],
              !.s2 = [k \in 1..Len(js) |-> T.s2[js[k]]]]

\* T.iloc[is] for a sequence is of row positions
ILocRows(T, is) ==
    [T EXCEPT !.index = [k \in 1..Len(is) |-> T.index[is[k]]],
              !.src = [k \in 1..Len(is) |-> T.src[is[k]]],
              !.num = [k \in 1..Len(is) |-> T.num[is[k]]]]

SeriesILoc(S, is) ==
    [S EXCEPT !.index = [k \in 1..Len(is) |-> S.index[is[k]]],
              !.src = [k \in 1..Len(is) |-> S.src[is[k]]],
              !.val = [k \in 1..Len(is) |-> S.val[is[k]]]]

\* T[name]
GetColumn(T, name) ==
    LET j == IndexOf(T.columns, name)
    IN  Series(name, T.index, T.src, ColumnOf(T, j))

\* T[name] = S : a new last column, S's values aligned on the row labels
SetColumn(T, name, S) ==
    [T EXCEPT !.columns = Append(T.columns, name),
              !.num = [i \in 1..NRows(T) |->
                          Append(T.num[i], S.val[IndexOf(S.index, T.index[i])])],
              !.s2 = Append(T.s2, <<1, 1>>)]

\* T.drop(columns=[name])
DropColumn(T, name) ==
    ILocCols(T, SelectSeq([j \in 1..NCols(T) |-> j],
                          LAMBDA j : T.columns[j] # name))

\* the variant that leaves out the first column instead of the last
AllButLast_first(T) == ILocCols(T, [j \in 1..(NCols(T) - 1) |-> j + 1])

\* T.iloc[:,:-1]
AllButLast(T) == ILocCols(T, [j \in 1..(NCols(T) - 1) |-> j])

\* the categories of a column: in a column read as text, a number and a
\* word are different categories
Categories(S) ==
    {<<(<<S.src[i], S.name>> \in file.text), S.val[i]>> : i \in DOMAIN S.val}

\* features['female'] = pd.get_dummies(...): the frame of indicators must
\* have exactly one column, that is, the column two categories
GetDummiesError(S) ==
    IF Cardinality(Categories(S)) # 2 THEN "ValueError" ELSE ""

\* pd.get_dummies(S, drop_first=True) for a column of two categories: the
\* indicator of the larger one (the smaller, first, category is dropped)
GetDummiesDropFirst(S) ==
    LET cats == Range(S.val)
        top == CHOOSE c \in cats : \A d \in cats : d <= c
    IN  [S EXCEPT !.val = [i \in DOMAIN S.val |->
                              IF S.val[i] = top THEN 1 ELSE 0]]

(***************************************************************************)
(* train_test_split(features, target, random_state=20, test_size=0.2)      *)
(***************************************************************************)
TestSizeDen == 5

\* ceil(test_size * n) rows go to the test partition
NTest(n) == (n + TestSizeDen - 1) \div TestSizeDen

TestPositions(p) == SubSeq(p, 1, NTest(Len(p)))
\* the variant in which the first training row is also the last test row
TrainPositions_overlap(p) == SubSeq(p, NTest(Len(p)), Len(p))

TrainPositions(p) == SubSeq(p, NTest(Len(p)) + 1, Len(p))

(***************************************************************************)
(* sklearn.preprocessing.StandardScaler                                    *)
(***************************************************************************)
Estimator(cls, id) == [kind |-> cls, id |-> id, fitted |-> None]

IsFitted(e) == e.fitted # None

\* scaler.fit(X): per column the sum (mean = sum/n) and the squared scale;
\* a column of zero variance gets scale 1
ScalerFit(e, X) ==
    LET n == NRows(X)
        sums == [j \in 1..NCols(X) |-> SeqSum(ColumnOf(X, j))]
        ss == [j \in 1..NCols(X) |->
                  SeqSum([i \in 1..n |->
                      (n * X.num[i][j] - sums[j]) * (n * X.num[i][j] - sums[j])])]
    IN  [e EXCEPT !.fitted =
            [rows |-> X.src, columns |-> X.columns, n |-> n, sums |-> sums,
             s2 |-> [j \in 1..NCols(X) |->
                        IF ss[j] = 0 THEN <<n * n, 1>> ELSE <<ss[j], n>>]]]

\* scaler.transform(X): (x - mean) / scale with the fitted parameters
ScalerTransform(e, X) ==
    Table("ndarray", X.columns, [i \in 1..NRows(X) |-> i - 1], X.src,
          [i \in 1..NRows(X) |->
              [j \in 1..NCols(X) |-> e.fitted.n * X.num[i][j] - e.fitted.sums[j]]],
          e.fitted.s2)

\* pd.DataFrame(array, columns=..., index=...)
DataFrame(A, columns, index) ==
    [A EXCEPT !.kind = "DataFrame", !.columns = columns, !.index = index]

\* pd.DataFrame(array, columns=...): a fresh 0..n-1 index
DataFrameRangeIndex(A, columns) ==
    [A EXCEPT !.kind = "DataFrame", !.columns = columns,
              !.index = [i \in 1..NRows(A) |-> i - 1]]

(***************************************************************************)
(* sklearn.preprocessing.PolynomialFeatures                                *)
(***************************************************************************)
\* itertools.combinations_with_replacement(lo..n, d), in its order
RECURSIVE CombWithRepl(_, _, _)
CombWithRepl(lo, n, d) ==
    IF d = 0 THEN << <<>> >>
    ELSE Flatten([k \in 1..(n - lo + 1) |->
            LET i == lo + k - 1
                rest == CombWithRepl(i, n, d - 1)
            IN  [m \in 1..Len(rest) |-> <<i>> \o rest[m]]])

\* the variant that goes one degree further
PolyTerms_cubic(n, degree) ==
    Flatten([d \in 1..(degree + 1) |-> CombWithRepl(1, n, d)])

\* the terms of degree 1..degree (include_bias=False, interaction_only=False)
PolyTerms(n, degree) ==
    Flatten([d \in 1..degree |-> CombWithRepl(1, n, d)])

PolyDegree == 2

PolyFit(e, X) ==
    [e EXCEPT !.fitted = [rows |-> X.src, columns |-> X.columns,
                          terms |-> PolyTerms(NCols(X), PolyDegree)]]

RECURSIVE TermNum(_, _)
TermNum(row, term) ==
    IF term = <<>> THEN 1 ELSE row[Head(term)] * TermNum(row, Tail(term))

RECURSIVE TermS2(_, _)
TermS2(s2, term) ==
    IF term = <<>> THEN <<1, 1>>
    ELSE LET r == TermS2(s2, Tail(term))
         IN  <<s2[Head(term)][1] * r[1], s2[Head(term)][2] * r[2]>>

\* poly.transform(X): one column per term, the product of its factors
PolyTransform(e, X) ==
    LET terms == e.fitted.terms
    IN  Table("ndarray", terms, [i \in 1..NRows(X) |-> i - 1], X.src,
              [i \in 1..NRows(X) |->
                  [t \in 1..Len(terms) |-> TermNum(X.num[i], terms[t])]],
              [t \in 1..Len(terms) |-> TermS2(X.s2, terms[t])])

\* poly.get_feature_names(names): each term spelled with the input names
PolyFeatureNames(e, names) ==
    [t \in 1..Len(e.fitted.terms) |->
        [k \in 1..Len(e.fitted.terms[t]) |-> names[e.fitted.terms[t][k]]]]

(***************************************************************************)
(* What the floating-point fits and scores come to.                        *)
(***************************************************************************)
NumericMod == 11

\* a digest of the inputs of a fit: same inputs, same digest
Digest(X, y) ==
    (SeqSum([i \in 1..NRows(X) |->
         SeqSum([j \in 1..NCols(X) |-> (i + 2 * j) * Abs(X.num[i][j])])
         + i * y.val[i]])
     + NCols(X)) % 101

\* the k-th number a computation on inputs of this digest returns
Numeric(digest, k) == (digest * 3 + k * k * 5 + k) % NumericMod

\* the same for a computation that also draws r from the random generator
Randomized(r, digest, k) ==
    (r * 7 + digest * 3 + k * k * 5 + k * (r + 1)) % NumericMod

(***************************************************************************)
(* sklearn.linear_model.LinearRegression                                   *)
(***************************************************************************)
\* the statement-level state: the namespace, what is printed, the calls
\* made, the next object identity and the exception raised, if any
Raise(st, e) == [st EXCEPT !.err = e]

LogCall(st, op, e, X) ==
    [st EXCEPT !.calls = Append(@,
        [op |-> op, est |-> e.id, cls |-> e.kind, rows |-> X.src,
         fitted_rows |-> IF IsFitted(e) THEN e.fitted.rows ELSE <<>>,
         was_fitted |-> IsFitted(e)])]

\* model.fit(X, y): X and y are paired by position
LinFit(e, X, y) ==
    [e EXCEPT !.fitted = [rows |-> X.src, columns |-> X.columns,
                          y |-> y.src, digest |-> Digest(X, y)]]

\* coef_[j]^2 of a fitted linear model: real numbers, no two equal
CoefSqr(e, j) == Numeric(e.fitted.digest, j) * (Len(e.fitted.columns) + 1) + j

\* a fit raises when X and y differ in their number of rows, or when a
\* target value is no number
FitError(X, y) ==
    IF NRows(X) # Len(y.src) THEN "ValueError"
    ELSE IF HasText(y.src, <<y.name>>) THEN "ValueError"
    ELSE ""

\* the checks predict and score make before they compute
PredictError(e, X) ==
    IF ~IsFitted(e) THEN "NotFittedError"
    ELSE IF NCols(X) # Len(e.fitted.columns) THEN "ValueError"
    ELSE ""

\* what the coefficients a prediction uses were computed from: the data
\* of the fit and the strength of the penalty (0: least squares)
CoefOf(e) ==
    [digest |-> e.fitted.digest,
     alpha |-> IF e.kind = "LassoCV" THEN e.fitted.coef_alpha ELSE 0]

Metric(name, e, X, y) ==
    [metric |-> name, est |-> e.id, rows |-> X.src, y |-> y.src,
     coef |-> CoefOf(e)]

Emit(st, label, value) ==
    [st EXCEPT !.out = Append(@, [label |-> label, value |-> value])]

\* one half of run_model: score, predict, and the two printed lines
ReportPartition(st, model, X, y, r2label, rmselabel) ==
    IF PredictError(model, X) # "" THEN Raise(st, PredictError(model, X))
    ELSE IF FitError(X, y) # "" THEN Raise(st, FitError(X, y))
    ELSE LET s1 == LogCall(st, "score", model, X)
             s2 == Emit(s1, r2label, Metric("r2", model, X, y))
             s3 == LogCall(s2, "predict", model, X)
         IN  Emit(s3, rmselabel, Metric("rmse", model, X, y))

\* the variant that reports the training partition under both headings
run_model_trainonly(st, model, X_train, X_test, y_train, y_test) ==
    LET s1 == ReportPartition(st, model, X_train, y_train,
                  "Training R^2 :", "Training Root Mean Square Error")
    IN  IF s1.err # "" THEN s1
        ELSE ReportPartition(Emit(s1, "----------------", None),
                 model, X_train, y_train,
                 "Testing R^2 :", "Testing Root Mean Square Error")

\* def run_model(model, X_train, X_test, y_train, y_test)
run_model(st, model, X_train, X_test, y_train, y_test) ==
    LET s1 == ReportPartition(st, model, X_train, y_train,
                  "Training R^2 :", "Training Root Mean Square Error")
    IN  IF s1.err # "" THEN s1
        ELSE ReportPartition(Emit(s1, "----------------", None),
                 model, X_test, y_test,
                 "Testing R^2 :", "Testing Root Mean Square Error")

\* model.fit(X, y) as a statement: the call is logged, the object is fitted
FitInto(st, name, e, X, y) ==
    IF FitError(X, y) # "" THEN Raise(st, FitError(X, y))
    ELSE [LogCall(st, "fit", e, X) EXCEPT !.ns[name] = LinFit(e, X, y)]

\* a constructor call: a new object with a new identity
New(st, name, cls) ==
    [st EXCEPT !.ns[name] = Estimator(cls, st.nextId), !.nextId = @ + 1]

HeadRows == 5

\* T.head() as the last expression of a cell: the frame's shape is shown
DisplayHead(st, T) ==
    Emit(st, "head",
          <<IF NRows(T) < HeadRows THEN NRows(T) ELSE HeadRows, NCols(T)>>)

(***************************************************************************)
(* Statistics of a column, exact.                                          *)
(***************************************************************************)
\* n*Sum(q^2) - Sum(q)^2 of the numerators of column j: n^2 times their
\* population variance
ScaledVar(X, j) ==
    LET q == ColumnOf(X, j)
        n == NRows(X)
    IN  n * SeqSum([i \in 1..n |-> q[i] * q[i]]) - SeqSum(q) * SeqSum(q)

\* np.var of column j as the fraction <<numerator, denominator>>
Variance(X, j) ==
    <<X.s2[j][2] * ScaledVar(X, j), NRows(X) * NRows(X) * X.s2[j][1]>>

\* np.linspace(start, stop, num) as fractions
Linspace(start, stop, num) ==
    [k \in 1..num |-> <<start * (num - 1) + (k - 1) * (stop - start), num - 1>>]

\* the columns of X at the positions js, as the array a selector returns
SelectColumns(X, js) ==
    [ILocCols(X, js) EXCEPT !.kind = "ndarray",
                            !.index = [i \in 1..NRows(X) |-> i - 1]]

\* the positions of the mask that hold TRUE, in increasing order
Positions(mask) ==
    SelectSeq([j \in 1..Len(mask) |-> j], LAMBDA j : mask[j])

(***************************************************************************)
(* sklearn.feature_selection.VarianceThreshold                             *)
(***************************************************************************)
VarianceThreshold(id, threshold) ==
    [kind |-> "VarianceThreshold", id |-> id, fitted |-> None,
     threshold |-> threshold]

\* variances_[j] > threshold
ExceedsThreshold(v, t) == FracLess(t[1], t[2], v[1], v[2])

\* selector.fit(X): the variances of the columns of X
VarianceThresholdFit(e, X) ==
    [e EXCEPT !.fitted = [rows |-> X.src, columns |-> X.columns,
                          variances |-> [j \in 1..NCols(X) |-> Variance(X, j)]]]

\* the variant whose fit accepts a threshold no variance exceeds
VarianceThresholdFitError_none(e, X) == ""

\* fit raises when no variance exceeds the threshold
VarianceThresholdFitError(e, X) ==
    IF \A j \in 1..NCols(X) : ~ExceedsThreshold(Variance(X, j), e.threshold)
    THEN "ValueError" ELSE ""

\* the variant that keeps the positions whose variance does not exceed it
VarianceThresholdSupport_atmost(e) ==
    Positions([j \in 1..Len(e.fitted.columns) |->
                  ~ExceedsThreshold(e.fitted.variances[j], e.threshold)])

\* get_support(): the positions whose fitted variance exceeds the threshold
VarianceThresholdSupport(e) ==
    Positions([j \in 1..Len(e.fitted.columns) |->
                  ExceedsThreshold(e.fitted.variances[j], e.threshold)])

(***************************************************************************)
(* sklearn.feature_selection.SelectKBest, f_regression and                 *)
(* mutual_info_regression                                                  *)
(***************************************************************************)
SelectKBestDefaultK == 10

SelectKBest(id, score_func) ==
    [kind |-> "SelectKBest", id |-> id, fitted |-> None,
     score_func |-> score_func, k |-> SelectKBestDefaultK]

NaN == <<-1, 1>>

\* n*Sum(q*y) - Sum(q)*Sum(y): n^2 times the covariance of column j and y
ScaledCov(X, j, y) ==
    LET q == ColumnOf(X, j)
        n == NRows(X)
    IN  n * SeqSum([i \in 1..n |-> q[i] * y.val[i]]) - SeqSum(q) * SeqSum(y.val)

ScaledVarY(y) ==
    LET n == Len(y.val)
    IN  n * SeqSum([i \in 1..n |-> y.val[i] * y.val[i]])
        - SeqSum(y.val) * SeqSum(y.val)

\* f_regression: F grows with the squared correlation of the column and
\* y, which stands for it here; a constant column or target gives NaN
f_regression(X, y) ==
    [j \in 1..NCols(X) |->
        IF ScaledVar(X, j) = 0 \/ ScaledVarY(y) = 0 THEN NaN
        ELSE <<ScaledCov(X, j, y) * ScaledCov(X, j, y),
               ScaledVar(X, j) * ScaledVarY(y)>>]

\* mutual_info_regression: a randomized nearest-neighbour estimate
mutual_info_regression(X, y, r) ==
    [j \in 1..NCols(X) |-> <<Randomized(r, Digest(X, y), j), 1>>]

ScoreFunc(name, X, y, r) ==
    IF name = "f_regression" THEN f_regression(X, y)
    ELSE mutual_info_regression(X, y, r)

\* a < b on scores; NaN is cleaned to the smallest value
ScoreLess(a, b) ==
    IF b = NaN THEN FALSE
    ELSE IF a = NaN THEN TRUE
    ELSE FracLess(a[1], a[2], b[1], b[2])

\* f_regression takes the mean of y as it was read: a target read as text
\* cannot be averaged; mutual_info_regression converts y first
ScoreError(score_func, y) ==
    IF score_func = "f_regression" /\ IsObjectColumn(y.name)
    THEN "TypeError" ELSE ""

\* k > n_features is rejected by fit
SelectKBestFitError(e, X) == IF e.k > NCols(X) THEN "ValueError" ELSE ""

SelectKBestFit(e, X, y, r) ==
    [e EXCEPT !.fitted = [rows |-> X.src, columns |-> X.columns,
                          y |-> y.src,
                          scores |-> ScoreFunc(e.score_func, X, y, r)]]

\* position a comes before position b in the stable ascending sort
SortsBefore(scores, a, b) ==
    \/ ScoreLess(scores[a], scores[b])
    \/ (~ScoreLess(scores[b], scores[a]) /\ a < b)

\* the variant that keeps the first k positions of the sort
SelectKBestSupport_first(e) ==
    LET scores == e.fitted.scores
        n == Len(scores)
    IN  Positions([j \in 1..n |->
            Cardinality({m \in 1..n : SortsBefore(scores, m, j)}) < e.k])

\* get_support(): the last k positions of the stable ascending sort
SelectKBestSupport(e) ==
    LET scores == e.fitted.scores
        n == Len(scores)
    IN  Positions([j \in 1..n |->
            Cardinality({m \in 1..n : SortsBefore(scores, j, m)}) < e.k])

(***************************************************************************)
(* sklearn.model_selection.KFold, as cv=5 makes it for a regressor: k      *)
(* consecutive blocks, the first n % k of them one row longer.             *)
(***************************************************************************)
FoldSize(n, k, f) == (n \div k) + (IF f <= n % k THEN 1 ELSE 0)

RECURSIVE FoldStart(_, _, _)
FoldStart(n, k, f) ==
    IF f = 1 THEN 1 ELSE FoldStart(n, k, f - 1) + FoldSize(n, k, f - 1)

\* the row positions fold f is trained on: all but its own block
FoldTrain(n, k, f) ==
    SelectSeq([i \in 1..n |-> i],
              LAMBDA i : i < FoldStart(n, k, f)
                         \/ i >= FoldStart(n, k, f) + FoldSize(n, k, f))

\* splitting raises when there are fewer rows than folds
CVError(cv, X) == IF cv > NRows(X) THEN "ValueError" ELSE ""

\* the digest of what fold f is trained on
FoldDigest(cv, X, y, f) ==
    Digest(ILocRows(X, FoldTrain(NRows(X), cv, f)),
           SeriesILoc(y, FoldTrain(NRows(X), cv, f)))

(***************************************************************************)
(* sklearn.feature_selection.RFECV (step=1, min_features_to_select=1)      *)
(***************************************************************************)
RFECV(id, estimator, cv) ==
    [kind |-> "RFECV", id |-> id, fitted |-> None, estimator |-> estimator,
     cv |-> cv]

\* the validation scores summed over the folds, one per number of kept
\* features d (grid_scores_[d-1] times the number of folds)
GridScores(cv, X, y) ==
    [d \in 1..NCols(X) |->
        SeqSum([f \in 1..cv |-> Numeric(FoldDigest(cv, X, y, f), d)])]

\* the variant that takes the depth of the smallest score
BestDepth_worst(scores) ==
    CHOOSE d \in 1..Len(scores) :
        /\ \A m \in 1..Len(scores) : scores[d] <= scores[m]
        /\ \A m \in 1..(d - 1) : scores[d] < scores[m]

\* the number of features the final elimination goes down to: the depth of
\* the best score, the smallest such depth when several are best
BestDepth(scores) ==
    CHOOSE d \in 1..Len(scores) :
        /\ \A m \in 1..Len(scores) : scores[m] <= scores[d]
        /\ \A m \in 1..(d - 1) : scores[m] < scores[d]

\* the variant that finds the position of the largest coef_^2
WeakestOf_strongest(support, X, y) ==
    LET e == LinFit(Estimator("LinearRegression", 0),
                    SelectColumns(X, support), y)
        m == CHOOSE a \in 1..Len(support) :
                \A b \in 1..Len(support) : CoefSqr(e, a) >= CoefSqr(e, b)
    IN  support[m]

\* one pass of RFE's elimination loop over the columns at the positions
\* support of X: fit a clone, drop the position of the smallest coef_^2
WeakestOf(support, X, y) ==
    LET e == LinFit(Estimator("LinearRegression", 0),
                    SelectColumns(X, support), y)
        m == CHOOSE a \in 1..Len(support) :
                \A b \in 1..Len(support) : CoefSqr(e, a) <= CoefSqr(e, b)
    IN  support[m]

Eliminate(support, X, y) ==
    SelectSeq(support, LAMBDA j : j # WeakestOf(support, X, y))

\* what fit leaves on the object once the elimination has ended
RFECVFit(e, X, y, support) ==
    [e EXCEPT !.fitted =
        [rows |-> X.src, columns |-> X.columns, y |-> y.src,
         support |-> support, n_features |-> Len(support),
         grid_scores |-> GridScores(e.cv, X, y),
         estimator |-> LinFit(e.estimator, SelectColumns(X, support), y)]]

(***************************************************************************)
(* sklearn.linear_model.LassoCV                                            *)
(***************************************************************************)
LassoNAlphas == 100

LassoCV(id, cv) ==
    [kind |-> "LassoCV", id |-> id, fitted |-> None, cv |-> cv,
     n_alphas |-> LassoNAlphas]

\* the validation error of each strength of the grid, summed over the
\* folds (position a of the grid: the a-th largest strength)
MsePath(e, X, y) ==
    [a \in 1..e.n_alphas |->
        SeqSum([f \in 1..e.cv |-> Numeric(FoldDigest(e.cv, X, y, f), a)])]

\* the variant that takes the first position of the largest error
BestAlpha_worst(mse) ==
    CHOOSE a \in 1..Len(mse) :
        /\ \A b \in 1..Len(mse) : mse[a] >= mse[b]
        /\ \A b \in 1..(a - 1) : mse[a] > mse[b]

\* np.argmin: the first position of the smallest error
BestAlpha(mse) ==
    CHOOSE a \in 1..Len(mse) :
        /\ \A b \in 1..Len(mse) : mse[a] <= mse[b]
        /\ \A b \in 1..(a - 1) : mse[a] < mse[b]

\* fit: choose alpha_ on the grid, then fit the model with it on all of X
LassoCVFit(e, X, y) ==
    LET mse == MsePath(e, X, y)
    IN  [e EXCEPT !.fitted =
            [rows |-> X.src, columns |-> X.columns, y |-> y.src,
             mse |-> mse, alpha |-> BestAlpha(mse),
             coef_alpha |-> BestAlpha(mse), digest |-> Digest(X, y)]]

(***************************************************************************)
(* What every selector shares: transform(X) keeps the fitted support.      *)
(***************************************************************************)
Support(e) ==
    CASE e.kind = "VarianceThreshold" -> VarianceThresholdSupport(e)
      [] e.kind = "SelectKBest" -> SelectKBestSupport(e)
      [] e.kind = "RFECV" -> e.fitted.support

\* transform raises on an unfitted selector or another number of columns
TransformError(e, X) ==
    IF ~IsFitted(e) THEN "NotFittedError"
    ELSE IF NCols(X) # Len(e.fitted.columns) THEN "ValueError"
    ELSE ""

SelectorTransform(e, X) == SelectColumns(X, Support(e))

(***************************************************************************)
(* The statements of the code cells, named by their line in the notebook.  *)
(***************************************************************************)
\* df = pd.read_csv('diabetes.tab.txt', sep='\t', lineterminator='\n')
S106(st) == [st EXCEPT !.ns.df = ReadCsv(file)]

\* the scaler converts the table it is given to numbers
ScalerError(X) == IF HasText(X.src, X.columns) THEN "ValueError" ELSE ""

\* features = df.iloc[:,:-1]
S233(st) == [st EXCEPT !.ns.features = AllButLast(st.ns.df)]

\* target = df['Y']
S234(st) ==
    IF "Y" \notin Range(st.ns.df.columns) THEN Raise(st, "KeyError")
    ELSE [st EXCEPT !.ns.target = GetColumn(st.ns.df, "Y")]

\* features['female'] = pd.get_dummies(features['SEX'],drop_first=True)
S236(st) ==
    IF "SEX" \notin Range(st.ns.features.columns) THEN Raise(st, "KeyError")
    ELSE IF GetDummiesError(GetColumn(st.ns.features, "SEX")) # ""
    THEN Raise(st, GetDummiesError(GetColumn(st.ns.features, "SEX")))
    ELSE [st EXCEPT !.ns.features =
             SetColumn(@, "female",
                       GetDummiesDropFirst(GetColumn(@, "SEX")))]

\* the variant that leaves the SEX column in place
S237_keep(st) == st

\* features.drop(columns=['SEX'], inplace=True)
S237(st) == [st EXCEPT !.ns.features = DropColumn(@, "SEX")]

\* features.head()
S238(st) == DisplayHead(st, st.ns.features)

\* X_train, X_test, y_train, y_test = train_test_split(features, target, ...)
S272(st) ==
    [st EXCEPT !.ns.X_train = ILocRows(st.ns.features, TrainPositions(perm)),
               !.ns.X_test = ILocRows(st.ns.features, TestPositions(perm)),
               !.ns.y_train = SeriesILoc(st.ns.target, TrainPositions(perm)),
               !.ns.y_test = SeriesILoc(st.ns.target, TestPositions(perm))]

\* scaler = preprocessing.StandardScaler()
S273(st) == New(st, "scaler", "StandardScaler")

\* the variant in which the scaler is fitted before the split is applied
ScalerFitInput_all(st) == AllButLast(st.ns.features)

\* the table scaler.fit is given
ScalerFitInput(st) == AllButLast(st.ns.X_train)

\* scaler.fit(X_train.iloc[:,:-1])
S276(st) ==
    IF ScalerError(ScalerFitInput(st)) # ""
    THEN Raise(st, ScalerError(ScalerFitInput(st)))
    ELSE [LogCall(st, "fit", st.ns.scaler, ScalerFitInput(st))
            EXCEPT !.ns.scaler = ScalerFit(@, ScalerFitInput(st))]

\* scaler.transform(X) as an expression of a statement
ScalerTransformLogged(st, X) == LogCall(st, "transform", st.ns.scaler, X)

\* transformed_training_features = scaler.transform(X_train.iloc[:,:-1])
S277(st) ==
    IF ScalerError(AllButLast(st.ns.X_train)) # ""
    THEN Raise(st, ScalerError(AllButLast(st.ns.X_train)))
    ELSE [ScalerTransformLogged(st, AllButLast(st.ns.X_train))
            EXCEPT !.ns.transformed_training_features =
                ScalerTransform(st.ns.scaler, AllButLast(st.ns.X_train))]

\* transformed_testing_features = scaler.transform(X_test.iloc[:,:-1])
S278(st) ==
    IF ScalerError(AllButLast(st.ns.X_test)) # ""
    THEN Raise(st, ScalerError(AllButLast(st.ns.X_test)))
    ELSE [ScalerTransformLogged(st, AllButLast(st.ns.X_test))
            EXCEPT !.ns.transformed_testing_features =
                ScalerTransform(st.ns.scaler, AllButLast(st.ns.X_test))]

\* X_train_transformed = pd.DataFrame(scaler.transform(X_train.iloc[:,:-1]),
\*     columns=X_train.columns[:-1], index=X_train.index)
S280(st) ==
    IF ScalerError(AllButLast(st.ns.X_train)) # ""
    THEN Raise(st, ScalerError(AllButLast(st.ns.X_train)))
    ELSE [ScalerTransformLogged(st, AllButLast(st.ns.X_train))
            EXCEPT !.ns.X_train_transformed =
                DataFrame(ScalerTransform(st.ns.scaler, AllButLast(st.ns.X_train)),
                          AllButLast(st.ns.X_train).columns, st.ns.X_train.index)]

\* the variant that attaches the indicator by position, from the first rows
\* of the table before the split
S281_unaligned(st) ==
    [st EXCEPT !.ns.X_train_transformed =
        [@ EXCEPT !.columns = Append(@, "female"),
                  !.num = [i \in 1..NRows(st.ns.X_train_transformed) |->
                              Append(@[i], st.ns.features.num[i][
                                  IndexOf(st.ns.features.columns, "female")])],
                  !.s2 = Append(@, <<1, 1>>)]]

\* X_train_transformed['female'] = X_train['female']
S281(st) ==
    IF "female" \notin Range(st.ns.X_train.columns) THEN Raise(st, "KeyError")
    ELSE [st EXCEPT !.ns.X_train_transformed =
            SetColumn(@, "female", GetColumn(st.ns.X_train, "female"))]

\* X_test_transformed = pd.DataFrame(scaler.transform(X_test.iloc[:,:-1]),
\*     columns=X_train.columns[:-1], index=X_test.index)
S283(st) ==
    IF ScalerError(AllButLast(st.ns.X_test)) # ""
    THEN Raise(st, ScalerError(AllButLast(st.ns.X_test)))
    ELSE [ScalerTransformLogged(st, AllButLast(st.ns.X_test))
            EXCEPT !.ns.X_test_transformed =
                DataFrame(ScalerTransform(st.ns.scaler, AllButLast(st.ns.X_test)),
                          AllButLast(st.ns.X_train).columns, st.ns.X_test.index)]

\* X_test_transformed['female'] = X_test['female']
S284(st) ==
    IF "female" \notin Range(st.ns.X_test.columns) THEN Raise(st, "KeyError")
    ELSE [st EXCEPT !.ns.X_test_transformed =
            SetColumn(@, "female", GetColumn(st.ns.X_test, "female"))]

\* lm = LinearRegression()
S331(st) == New(st, "lm", "LinearRegression")

\* lm.fit(X_train_transformed,y_train)
S332(st) ==
    FitInto(st, "lm", st.ns.lm, st.ns.X_train_transformed, st.ns.y_train)

\* run_model(lm,X_train_transformed,X_test_transformed,y_train,y_test)
S333(st) ==
    run_model(st, st.ns.lm, st.ns.X_train_transformed,
              st.ns.X_test_transformed, st.ns.y_train, st.ns.y_test)

\* poly = preprocessing.PolynomialFeatures(degree=2, interaction_only=False,
\*     include_bias=False)
S549(st) == New(st, "poly", "PolynomialFeatures")

\* the table poly.fit_transform is given
PolyFitInput(st) == st.ns.X_train_transformed

\* X_poly_train = pd.DataFrame(poly.fit_transform(X_train_transformed),
\*     columns=poly.get_feature_names(features.columns))
S550(st) ==
    LET fitted == PolyFit(st.ns.poly, PolyFitInput(st))
        s1 == LogCall(LogCall(st, "fit", st.ns.poly, PolyFitInput(st)),
                      "transform", fitted, PolyFitInput(st))
    IN  IF Len(st.ns.features.columns) < NCols(PolyFitInput(st))
        THEN Raise([s1 EXCEPT !.ns.poly = fitted], "IndexError")
        ELSE [s1 EXCEPT
                !.ns.poly = fitted,
                !.ns.X_poly_train =
                    DataFrameRangeIndex(
                        PolyTransform(fitted, PolyFitInput(st)),
                        PolyFeatureNames(fitted, st.ns.features.columns))]

\* X_poly_test = pd.DataFrame(poly.transform(X_test_transformed),
\*     columns=poly.get_feature_names(features.columns))
S551(st) ==
    IF NCols(st.ns.X_test_transformed) # Len(st.ns.poly.fitted.columns)
    THEN Raise(st, "ValueError")
    ELSE IF Len(st.ns.features.columns) < NCols(st.ns.X_test_transformed)
    THEN Raise(st, "IndexError")
    ELSE [LogCall(st, "transform", st.ns.poly, st.ns.X_test_transformed)
            EXCEPT !.ns.X_poly_test =
                DataFrameRangeIndex(
                    PolyTransform(st.ns.poly, st.ns.X_test_transformed),
                    PolyFeatureNames(st.ns.poly, st.ns.features.columns))]

\* X_poly_train.head()
S552(st) == DisplayHead(st, st.ns.X_poly_train)

\* lr_poly = LinearRegression()
S582(st) == New(st, "lr_poly", "LinearRegression")

\* lr_poly.fit(X_poly_train,y_train)
S583(st) == FitInto(st, "lr_poly", st.ns.lr_poly, st.ns.X_poly_train, st.ns.y_train)

\* run_model(lr_poly,X_poly_train,X_poly_test,y_train,y_test)
S585(st) ==
    run_model(st, st.ns.lr_poly, st.ns.X_poly_train, st.ns.X_poly_test,
              st.ns.y_train, st.ns.y_test)

\* selector.fit_transform(X): fit, then transform the same table
FitTransformInto(st, name, target, fitted, X) ==
    LET s1 == LogCall(st, "fit", st.ns[name], X)
        s2 == LogCall(s1, "transform", fitted, X)
    IN  [s2 EXCEPT !.ns[name] = fitted,
                   !.ns[target] = SelectorTransform(fitted, X)]

\* target = selector.transform(X)
TransformInto(st, name, target, X) ==
    IF TransformError(st.ns[name], X) # ""
    THEN Raise(st, TransformError(st.ns[name], X))
    ELSE [LogCall(st, "transform", st.ns[name], X)
            EXCEPT !.ns[target] = SelectorTransform(st.ns[name], X)]

\* threshold_ranges = np.linspace(0,2,num=6)
S672(st) == [st EXCEPT !.ns.threshold_ranges = Linspace(0, 2, 6)]

\* for thresh in threshold_ranges:
S674(st) == [st EXCEPT !.ns.thresh = st.ns.threshold_ranges[sweep_i + 1]]

\* print(thresh)
S675(st) == Emit(st, "thresh", st.ns.thresh)

\* selector = VarianceThreshold(thresh)
S676(st) ==
    [st EXCEPT !.ns.selector = VarianceThreshold(st.nextId, st.ns.thresh),
               !.nextId = @ + 1]

\* reduced_feature_train = selector.fit_transform(X_poly_train)
S677(st) ==
    LET X == st.ns.X_poly_train
        fitted == VarianceThresholdFit(st.ns.selector, X)
    IN  IF VarianceThresholdFitError(st.ns.selector, X) # ""
        THEN Raise([LogCall(st, "fit", st.ns.selector, X)
                       EXCEPT !.ns.selector = fitted],
                   VarianceThresholdFitError(st.ns.selector, X))
        ELSE FitTransformInto(st, "selector", "reduced_feature_train",
                              fitted, X)

\* the variant in which the selector is fitted again, on the test matrix
S678_refit(st) ==
    FitTransformInto(st, "selector", "reduced_feature_test",
                     VarianceThresholdFit(st.ns.selector, st.ns.X_poly_test),
                     st.ns.X_poly_test)

\* reduced_feature_test = selector.transform(X_poly_test)
S678(st) ==
    TransformInto(st, "selector", "reduced_feature_test", st.ns.X_poly_test)

\* lr = LinearRegression()
S679(st) == New(st, "lr", "LinearRegression")

\* lr.fit(reduced_feature_train,y_train)
S680(st) ==
    FitInto(st, "lr", st.ns.lr, st.ns.reduced_feature_train, st.ns.y_train)

\* run_model(lr,reduced_feature_train,reduced_feature_test,y_train,y_test)
S681(st) ==
    run_model(st, st.ns.lr, st.ns.reduced_feature_train,
              st.ns.reduced_feature_test, st.ns.y_train, st.ns.y_test)

\* print('-----...-----')
S682(st) == Emit(st, "--------------------", None)

\* selector.fit_transform(X_poly_train, y_train) of a SelectKBest
KBestFitTransform(st) ==
    LET X == st.ns.X_poly_train
        y == st.ns.y_train
    IN  IF SelectKBestFitError(st.ns.selector, X) # ""
        THEN Raise(st, SelectKBestFitError(st.ns.selector, X))
        ELSE IF ScoreError(st.ns.selector.score_func, y) # ""
        THEN Raise(st, ScoreError(st.ns.selector.score_func, y))
        ELSE IF FitError(X, y) # "" THEN Raise(st, FitError(X, y))
        ELSE FitTransformInto(st, "selector", "X_k_best_train",
                              SelectKBestFit(st.ns.selector, X, y, st.rng), X)

\* selector = SelectKBest(score_func=f_regression)
S713(st) ==
    [st EXCEPT !.ns.selector = SelectKBest(st.nextId, "f_regression"),
               !.nextId = @ + 1]

\* X_k_best_train = selector.fit_transform(X_poly_train, y_train)
S714(st) == KBestFitTransform(st)

\* X_k_best_test= selector.transform(X_poly_test)
S715(st) == TransformInto(st, "selector", "X_k_best_test", st.ns.X_poly_test)

\* the variant that constructs no model: lr stays the sweep's
S716_reuse(st) == st

\* lr = LinearRegression()
S716(st) == New(st, "lr", "LinearRegression")

\* lr.fit(X_k_best_train ,y_train)
S717(st) == FitInto(st, "lr", st.ns.lr, st.ns.X_k_best_train, st.ns.y_train)

\* run_model(lr,X_k_best_train,X_k_best_test,y_train,y_test)
S718(st) ==
    run_model(st, st.ns.lr, st.ns.X_k_best_train, st.ns.X_k_best_test,
              st.ns.y_train, st.ns.y_test)

\* selector = SelectKBest(score_func=mutual_info_regression)
S749(st) ==
    [st EXCEPT !.ns.selector = SelectKBest(st.nextId, "mutual_info_regression"),
               !.nextId = @ + 1]

\* X_k_best_train = selector.fit_transform(X_poly_train, y_train)
S750(st) == KBestFitTransform(st)

\* X_k_best_test= selector.transform(X_poly_test)
S751(st) == TransformInto(st, "selector", "X_k_best_test", st.ns.X_poly_test)

\* lr = LinearRegression()
S752(st) == New(st, "lr", "LinearRegression")

\* lr.fit(X_k_best_train ,y_train)
S753(st) == FitInto(st, "lr", st.ns.lr, st.ns.X_k_best_train, st.ns.y_train)

\* run_model(lr,X_k_best_train,X_k_best_test,y_train,y_test)
S754(st) ==
    run_model(st, st.ns.lr, st.ns.X_k_best_train, st.ns.X_k_best_test,
              st.ns.y_train, st.ns.y_test)

\* rfe = RFECV(LinearRegression(),cv=5)
S790(st) ==
    [st EXCEPT !.ns.rfe = RFECV(st.nextId + 1,
                                Estimator("LinearRegression", st.nextId), 5),
               !.nextId = @ + 2]

\* the fits of clones inside rfe.fit: one elimination per fold, on the
\* rows the fold is trained on
LogFoldFits(st, e, X) ==
    [st EXCEPT !.calls = @ \o
        [f \in 1..e.cv |->
            [op |-> "fit", est |-> 0, cls |-> "LinearRegression",
             rows |-> ILocRows(X, FoldTrain(NRows(X), e.cv, f)).src,
             fitted_rows |-> <<>>, was_fitted |-> FALSE]]]

\* X_rfe_train = rfe.fit_transform(X_poly_train,y_train), its first part:
\* the cross-validated eliminations that choose the depth
S791_cv(st) ==
    LET X == st.ns.X_poly_train
        y == st.ns.y_train
    IN  IF FitError(X, y) # "" THEN Raise(st, FitError(X, y))
        ELSE IF CVError(st.ns.rfe.cv, X) # ""
        THEN Raise(st, CVError(st.ns.rfe.cv, X))
        ELSE LogFoldFits(LogCall(st, "fit", st.ns.rfe, X), st.ns.rfe, X)

\* the elimination on all training rows starts from every column and goes
\* down to the depth the cross-validation chose
RfeLoopStart(st) ==
    [support |-> [j \in 1..NCols(st.ns.X_poly_train) |-> j],
     select |-> BestDepth(GridScores(st.ns.rfe.cv, st.ns.X_poly_train,
                                     st.ns.y_train))]

\* ... its last part: the final attributes, and the transform
S791_final(st) ==
    LET X == st.ns.X_poly_train
        fitted == RFECVFit(st.ns.rfe, X, st.ns.y_train, rfe_loop.support)
    IN  [LogCall(st, "transform", fitted, X)
            EXCEPT !.ns.rfe = fitted,
                   !.ns.X_rfe_train = SelectorTransform(fitted, X)]

\* X_rfe_test = rfe.transform(X_poly_test)
S792(st) == TransformInto(st, "rfe", "X_rfe_test", st.ns.X_poly_test)

\* lm = LinearRegression().fit(X_rfe_train,y_train)
S793(st) ==
    LET e == Estimator("LinearRegression", st.nextId)
        X == st.ns.X_rfe_train
    IN  IF FitError(X, st.ns.y_train) # ""
        THEN Raise([st EXCEPT !.nextId = @ + 1], FitError(X, st.ns.y_train))
        ELSE [LogCall(st, "fit", e, X)
                EXCEPT !.ns.lm = LinFit(e, X, st.ns.y_train),
                       !.nextId = @ + 1]

\* run_model(lm,X_rfe_train,X_rfe_test,y_train,y_test)
S794(st) ==
    run_model(st, st.ns.lm, st.ns.X_rfe_train, st.ns.X_rfe_test,
              st.ns.y_train, st.ns.y_test)

\* print ("The optimal number of features is: ",rfe.n_features_)
S795(st) ==
    Emit(st, "The optimal number of features is: ", st.ns.rfe.fitted.n_features)

\* model.fit(X, y) of a LassoCV
LassoFitInto(st, name, X, y) ==
    IF FitError(X, y) # "" THEN Raise(st, FitError(X, y))
    ELSE IF CVError(st.ns[name].cv, X) # ""
    THEN Raise(st, CVError(st.ns[name].cv, X))
    ELSE [LogCall(st, "fit", st.ns[name], X)
            EXCEPT !.ns[name] = LassoCVFit(st.ns[name], X, y)]

\* lasso=LassoCV(max_iter=100000,cv=5)
S836(st) ==
    [st EXCEPT !.ns.lasso = LassoCV(st.nextId, 5), !.nextId = @ + 1]

\* lasso.fit(X_train_transformed,y_train)
S837(st) == LassoFitInto(st, "lasso", st.ns.X_train_transformed, st.ns.y_train)

\* run_model(lasso,X_train_transformed,X_test_transformed,y_train,y_test)
S838(st) ==
    run_model(st, st.ns.lasso, st.ns.X_train_transformed,
              st.ns.X_test_transformed, st.ns.y_train, st.ns.y_test)

\* print("The optimal alpha for the Lasso Regression is: ",lasso.alpha_)
S839(st) ==
    Emit(st, "The optimal alpha for the Lasso Regression is: ",
         st.ns.lasso.fitted.alpha)

\* lasso2 = LassoCV(max_iter=100000,cv=5)
S871(st) ==
    [st EXCEPT !.ns.lasso2 = LassoCV(st.nextId, 5), !.nextId = @ + 1]

\* lasso2.fit(X_poly_train,y_train)
S873(st) == LassoFitInto(st, "lasso2", st.ns.X_poly_train, st.ns.y_train)

\* run_model(lasso2,X_poly_train,X_poly_test,y_train,y_test)
S874(st) ==
    run_model(st, st.ns.lasso2, st.ns.X_poly_train, st.ns.X_poly_test,
              st.ns.y_train, st.ns.y_test)

\* print("The optimal alpha for the Lasso Regression is: ",lasso2.alpha_)
S875(st) ==
    Emit(st, "The optimal alpha for the Lasso Regression is: ",
         st.ns.lasso2.fitted.alpha)

(***************************************************************************)
(* The kernel: a statement raises NameError when a name it reads is not    *)
(* bound; an exception ends the cell and keeps what ran before it.         *)
(***************************************************************************)
Uses(l) ==
    CASE l = "L106" -> {"pd"}
      [] l = "L233" -> {"df"}
      [] l = "L234" -> {"df"}
      [] l = "L236" -> {"features", "pd"}
      [] l = "L237" -> {"features"}
      [] l = "L238" -> {"features"}
      [] l = "L272" -> {"train_test_split", "features", "target"}
      [] l = "L273" -> {"preprocessing"}
      [] l = "L276" -> {"scaler", "X_train"}
      [] l = "L277" -> {"scaler", "X_train"}
      [] l = "L278" -> {"scaler", "X_test"}
      [] l = "L280" -> {"pd", "scaler", "X_train"}
      [] l = "L281" -> {"X_train_transformed", "X_train"}
      [] l = "L283" -> {"pd", "scaler", "X_test", "X_train"}
      [] l = "L284" -> {"X_test_transformed", "X_test"}
      [] l = "L331" -> {"LinearRegression"}
      [] l = "L332" -> {"lm", "X_train_transformed", "y_train"}
      [] l = "L333" -> {"run_model", "lm", "X_train_transformed",
                        "X_test_transformed", "y_train", "y_test",
                        "np", "metrics"}
      [] l = "L549" -> {"preprocessing"}
      [] l = "L550" -> {"pd", "poly", "X_train_transformed", "features"}
      [] l = "L551" -> {"pd", "poly", "X_test_transformed", "features"}
      [] l = "L552" -> {"X_poly_train"}
      [] l = "L582" -> {"LinearRegression"}
      [] l = "L583" -> {"lr_poly", "X_poly_train", "y_train"}
      [] l = "L585" -> {"run_model", "lr_poly", "X_poly_train", "X_poly_test",
                        "y_train", "y_test", "np", "metrics"}
      [] l = "L672" -> {"np"}
      [] l = "L674" -> {"threshold_ranges"}
      [] l = "L675" -> {"thresh"}
      [] l = "L676" -> {"VarianceThreshold", "thresh"}
      [] l = "L677" -> {"selector", "X_poly_train"}
      [] l = "L678" -> {"selector", "X_poly_test"}
      [] l = "L679" -> {"LinearRegression"}
      [] l = "L680" -> {"lr", "reduced_feature_train", "y_train"}
      [] l = "L681" -> {"run_model", "lr", "reduced_feature_train",
                        "reduced_feature_test", "y_train", "y_test",
                        "np", "metrics"}
      [] l = "L713" -> {"SelectKBest", "f_regression"}
      [] l = "L714" -> {"selector", "X_poly_train", "y_train"}
      [] l = "L715" -> {"selector", "X_poly_test"}
      [] l = "L716" -> {"LinearRegression"}
      [] l = "L717" -> {"lr", "X_k_best_train", "y_train"}
      [] l = "L718" -> {"run_model", "lr", "X_k_best_train", "X_k_best_test",
                        "y_train", "y_test", "np", "metrics"}
      [] l = "L749" -> {"SelectKBest", "mutual_info_regression"}
      [] l = "L750" -> {"selector", "X_poly_train", "y_train"}
      [] l = "L751" -> {"selector", "X_poly_test"}
      [] l = "L752" -> {"LinearRegression"}
      [] l = "L753" -> {"lr", "X_k_best_train", "y_train"}
      [] l = "L754" -> {"run_model", "lr", "X_k_best_train", "X_k_best_test",
                        "y_train", "y_test", "np", "metrics"}
      [] l = "L790" -> {"RFECV", "LinearRegression"}
      [] l = "L791_cv" -> {"rfe", "X_poly_train", "y_train"}
      [] l = "L791_final" -> {"rfe", "X_poly_train", "y_train"}
      [] l = "L792" -> {"rfe", "X_poly_test"}
      [] l = "L793" -> {"LinearRegression", "X_rfe_train", "y_train"}
      [] l = "L794" -> {"run_model", "lm", "X_rfe_train", "X_rfe_test",
                        "y_train", "y_test", "np", "metrics"}
      [] l = "L795" -> {"rfe"}
      [] l = "L836" -> {"LassoCV"}
      [] l = "L837" -> {"lasso", "X_train_transformed", "y_train"}
      [] l = "L838" -> {"run_model", "lasso", "X_train_transformed",
                        "X_test_transformed", "y_train", "y_test",
                        "np", "metrics"}
      [] l = "L839" -> {"lasso"}
      [] l = "L871" -> {"LassoCV"}
      [] l = "L873" -> {"lasso2", "X_poly_train", "y_train"}
      [] l = "L874" -> {"run_model", "lasso2", "X_poly_train", "X_poly_test",
                        "y_train", "y_test", "np", "metrics"}
      [] l = "L875" -> {"lasso2"}
      [] OTHER -> {}

Binds(l) ==
    CASE l = "L97" -> {"pd"}
      [] l = "L98" -> {"np"}
      [] l = "L99" -> {"plt"}
      [] l = "L100" -> {"datasets", "linear_model"}
      [] l = "L101" -> {"train_test_split"}
      [] l = "L102" -> {"metrics"}
      [] l = "L103" -> {"LinearRegression"}
      [] l = "L106" -> {"df"}
      [] l = "L233" -> {"features"}
      [] l = "L234" -> {"target"}
      [] l = "L271" -> {"preprocessing"}
      [] l = "L272" -> {"X_train", "X_test", "y_train", "y_test"}
      [] l = "L273" -> {"scaler"}
      [] l = "L277" -> {"transformed_training_features"}
      [] l = "L278" -> {"transformed_testing_features"}
      [] l = "L280" -> {"X_train_transformed"}
      [] l = "L283" -> {"X_test_transformed"}
      [] l = "L300" -> {"run_model"}
      [] l = "L331" -> {"lm"}
      [] l = "L549" -> {"poly"}
      [] l = "L550" -> {"X_poly_train"}
      [] l = "L551" -> {"X_poly_test"}
      [] l = "L582" -> {"lr_poly"}
      [] l = "L670" -> {"VarianceThreshold"}
      [] l = "L672" -> {"threshold_ranges"}
      [] l = "L674" -> {"thresh"}
      [] l = "L676" -> {"selector"}
      [] l = "L677" -> {"reduced_feature_train"}
      [] l = "L678" -> {"reduced_feature_test"}
      [] l = "L679" -> {"lr"}
      [] l = "L712" -> {"f_regression", "mutual_info_regression",
                        "SelectKBest"}
      [] l = "L713" -> {"selector"}
      [] l = "L714" -> {"X_k_best_train"}
      [] l = "L715" -> {"X_k_best_test"}
      [] l = "L716" -> {"lr"}
      [] l = "L749" -> {"selector"}
      [] l = "L750" -> {"X_k_best_train"}
      [] l = "L751" -> {"X_k_best_test"}
      [] l = "L752" -> {"lr"}
      [] l = "L787" -> {"RFE", "RFECV"}
      [] l = "L788" -> {"LinearRegression"}
      [] l = "L790" -> {"rfe"}
      [] l = "L791_final" -> {"X_rfe_train"}
      [] l = "L792" -> {"X_rfe_test"}
      [] l = "L793" -> {"lm"}
      [] l = "L836" -> {"lasso"}
      [] l = "L870" -> {"LassoCV"}
      [] l = "L871" -> {"lasso2"}
      [] OTHER -> {}

\* what a statement does once its names are resolved
Effect(l, st) ==
    CASE l = "L106" -> S106(st)
      [] l = "L233" -> S233(st)
      [] l = "L234" -> S234(st)
      [] l = "L236" -> S236(st)
      [] l = "L237" -> S237(st)
      [] l = "L238" -> S238(st)
      [] l = "L272" -> S272(st)
      [] l = "L273" -> S273(st)
      [] l = "L276" -> S276(st)
      [] l = "L277" -> S277(st)
      [] l = "L278" -> S278(st)
      [] l = "L280" -> S280(st)
      [] l = "L281" -> S281(st)
      [] l = "L283" -> S283(st)
      [] l = "L284" -> S284(st)
      [] l = "L331" -> S331(st)
      [] l = "L332" -> S332(st)
      [] l = "L333" -> S333(st)
      [] l = "L549" -> S549(st)
      [] l = "L550" -> S550(st)
      [] l = "L551" -> S551(st)
      [] l = "L552" -> S552(st)
      [] l = "L582" -> S582(st)
      [] l = "L583" -> S583(st)
      [] l = "L585" -> S585(st)
      [] l = "L672" -> S672(st)
      [] l = "L674" -> S674(st)
      [] l = "L675" -> S675(st)
      [] l = "L676" -> S676(st)
      [] l = "L677" -> S677(st)
      [] l = "L678" -> S678(st)
      [] l = "L679" -> S679(st)
      [] l = "L680" -> S680(st)
      [] l = "L681" -> S681(st)
      [] l = "L682" -> S682(st)
      [] l = "L713" -> S713(st)
      [] l = "L714" -> S714(st)
      [] l = "L715" -> S715(st)
      [] l = "L716" -> S716(st)
      [] l = "L717" -> S717(st)
      [] l = "L718" -> S718(st)
      [] l = "L749" -> S749(st)
      [] l = "L750" -> S750(st)
      [] l = "L751" -> S751(st)
      [] l = "L752" -> S752(st)
      [] l = "L753" -> S753(st)
      [] l = "L754" -> S754(st)
      [] l = "L790" -> S790(st)
      [] l = "L791_cv" -> S791_cv(st)
      [] l = "L791_final" -> S791_final(st)
      [] l = "L792" -> S792(st)
      [] l = "L793" -> S793(st)
      [] l = "L794" -> S794(st)
      [] l = "L795" -> S795(st)
      [] l = "L836" -> S836(st)
      [] l = "L837" -> S837(st)
      [] l = "L838" -> S838(st)
      [] l = "L839" -> S839(st)
      [] l = "L871" -> S871(st)
      [] l = "L873" -> S873(st)
      [] l = "L874" -> S874(st)
      [] l = "L875" -> S875(st)
      [] OTHER -> st

\* one statement: NameError, or its effect and then its bindings
Exec(l, st) ==
    IF ~(Uses(l) \subseteq st.bound) THEN Raise(st, "NameError")
    ELSE LET s1 == Effect(l, st)
         IN  IF s1.err # "" THEN s1
             ELSE [s1 EXCEPT !.bound = @ \cup Binds(l)]

\* the statements of a cell in order, up to the first exception
RECURSIVE RunStmts(_, _)
RunStmts(ls, st) ==
    IF ls = <<>> \/ st.err # "" THEN st
    ELSE RunStmts(Tail(ls), Exec(Head(ls), st))

(***************************************************************************)
(* The code cells, top to bottom.                                          *)
(***************************************************************************)
Cells ==
    <<"imports", "encode", "standardize", "def_run_model", "baseline",
      "poly", "lr_poly", "sweep", "kbest_f", "kbest_mi", "rfecv", "lasso1",
      "lasso2">>

Stmts(c) ==
    CASE c = "imports" ->
            <<"L97", "L98", "L99", "L100", "L101", "L102", "L103", "L106">>
      [] c = "encode" -> <<"L233", "L234", "L236", "L237", "L238">>
      [] c = "standardize" ->
            <<"L271", "L272", "L273", "L276", "L277", "L278", "L280",
              "L281", "L283", "L284">>
      [] c = "def_run_model" -> <<"L300">>
      [] c = "baseline" -> <<"L331", "L332", "L333">>
      [] c = "poly" -> <<"L549", "L550", "L551", "L552">>
      [] c = "lr_poly" -> <<"L582", "L583", "L585">>
      [] c = "sweep" -> <<"L670", "L672">>
      [] c = "sweep_body" ->
            <<"L674", "L675", "L676", "L677", "L678", "L679", "L680",
              "L681", "L682">>
      [] c = "kbest_f" ->
            <<"L712", "L713", "L714", "L715", "L716", "L717", "L718">>
      [] c = "kbest_mi" ->
            <<"L749", "L750", "L751", "L752", "L753", "L754">>
      [] c = "rfecv" -> <<"L787", "L788", "L790", "L791_cv">>
      [] c = "rfecv_end" ->
            <<"L791_final", "L792", "L793", "L794", "L795">>
      [] c = "lasso1" -> <<"L836", "L837", "L838", "L839">>
      [] c = "lasso2" -> <<"L870", "L871", "L873", "L874", "L875">>

NextCell(c) ==
    IF IndexOf(Cells, c) = Len(Cells) THEN "done"
    ELSE Cells[IndexOf(Cells, c) + 1]

\* where the kernel goes after cell c: down the notebook in a run from the
\* top, nowhere when the user ran the one cell again
After(c) == IF reruns > 0 THEN "done" ELSE NextCell(c)

NsNames ==
    {"df", "features", "target", "X_train", "X_test", "y_train", "y_test",
     "scaler", "transformed_training_features",
     "transformed_testing_features", "X_train_transformed",
     "X_test_transformed", "lm", "poly", "X_poly_train", "X_poly_test",
     "lr_poly", "threshold_ranges", "thresh", "selector",
     "reduced_feature_train", "reduced_feature_test", "lr",
     "X_k_best_train", "X_k_best_test", "rfe", "X_rfe_train", "X_rfe_test",
     "lasso", "lasso2"}

\* the kernel's state as the statements see it
Kernel == [ns |-> ns, bound |-> bound, out |-> out, calls |-> calls,
           nextId |-> nextId, rng |-> rng, err |-> ""]

\* the kernel takes the state a run of statements left; an exception is
\* shown as the cell's output and stops the run
Commit(st, c, next) ==
    /\ ns' = st.ns
    /\ bound' = st.bound
    /\ calls' = st.calls
    /\ nextId' = st.nextId
    /\ IF st.err = ""
       THEN /\ out' = st.out
            /\ pc' = next
            /\ UNCHANGED <<halted, failed>>
       ELSE /\ out' = Append(st.out, [label |-> "Traceback", value |-> st.err])
            /\ halted' = TRUE
            /\ failed' = failed \cup {c}
            /\ pc' = c

\* a cell whose statements run in one go
RunCell(c) ==
    /\ pc = c
    /\ ~halted
    /\ Commit(RunStmts(Stmts(c), Kernel), c, After(c))
    /\ UNCHANGED <<file, perm, rng, reruns, sweep_i, rfe_loop>>

Cell_imports == RunCell("imports")
Cell_encode == RunCell("encode")
Cell_standardize == RunCell("standardize")
Cell_def_run_model == RunCell("def_run_model")
Cell_baseline == RunCell("baseline")
Cell_poly == RunCell("poly")
Cell_lr_poly == RunCell("lr_poly")
Cell_kbest_f == RunCell("kbest_f")

Cell_lasso1 == RunCell("lasso1")
Cell_lasso2 == RunCell("lasso2")

\* the cell that draws from the random generator
Cell_kbest_mi ==
    /\ pc = "kbest_mi"
    /\ ~halted
    /\ \E r \in 1..NumSeeds :
          /\ rng' = r
          /\ Commit(RunStmts(Stmts("kbest_mi"), [Kernel EXCEPT !.rng = r]),
                    "kbest_mi", After("kbest_mi"))
    /\ UNCHANGED <<file, perm, reruns, sweep_i, rfe_loop>>

\* the RFECV cell up to the elimination on all training rows
Cell_rfecv ==
    /\ pc = "rfecv"
    /\ ~halted
    /\ LET st == RunStmts(Stmts("rfecv"), Kernel)
       IN  /\ Commit(st, "rfecv", "rfecv_loop")
           /\ rfe_loop' = IF st.err = "" THEN RfeLoopStart(st) ELSE None
    /\ UNCHANGED <<file, perm, rng, reruns, sweep_i>>

\* one pass of the elimination loop: a clone is fitted on the surviving
\* columns and the weakest of them is dropped
Rfe_step ==
    /\ pc = "rfecv_loop"
    /\ ~halted
    /\ Len(rfe_loop.support) > rfe_loop.select
    /\ rfe_loop' = [rfe_loop EXCEPT !.support =
                        Eliminate(@, ns.X_poly_train, ns.y_train)]
    /\ calls' = Append(calls,
          [op |-> "fit", est |-> 0, cls |-> "LinearRegression",
           rows |-> ns.X_poly_train.src, fitted_rows |-> <<>>,
           was_fitted |-> FALSE])
    /\ UNCHANGED <<file, perm, rng, pc, halted, failed, reruns, bound, ns,
                   out, nextId, sweep_i>>

\* the rest of the RFECV cell, once the elimination has reached the depth
Cell_rfecv_end ==
    /\ pc = "rfecv_loop"
    /\ ~halted
    /\ Len(rfe_loop.support) <= rfe_loop.select
    /\ Commit(RunStmts(Stmts("rfecv_end"), Kernel), "rfecv",
              After("rfecv"))
    /\ rfe_loop' = None
    /\ UNCHANGED <<file, perm, rng, reruns, sweep_i>>

\* the sweep cell up to its loop
Cell_sweep ==
    /\ pc = "sweep"
    /\ ~halted
    /\ Commit(RunStmts(Stmts("sweep"), Kernel), "sweep", "sweep_loop")
    /\ sweep_i' = 0
    /\ UNCHANGED <<file, perm, rng, reruns, rfe_loop>>

\* one iteration of the sweep's loop; the cell ends after the last one
Sweep_iter ==
    /\ pc = "sweep_loop"
    /\ ~halted
    /\ sweep_i < Len(ns.threshold_ranges)
    /\ Commit(RunStmts(Stmts("sweep_body"), Kernel), "sweep",
              IF sweep_i + 1 = Len(ns.threshold_ranges)
              THEN After("sweep") ELSE "sweep_loop")
    /\ sweep_i' = sweep_i + 1
    /\ UNCHANGED <<file, perm, rng, reruns, rfe_loop>>

\* after an exception the user goes on with the next cell
UserResume ==
    /\ halted
    /\ pc' = After(pc)
    /\ halted' = FALSE
    /\ UNCHANGED <<file, perm, rng, failed, reruns, bound, ns, out, calls,
                   nextId, sweep_i, rfe_loop>>

\* after the last cell the user runs a cell that failed again
UserRerun ==
    /\ pc = "done"
    /\ reruns < MaxReruns
    /\ \E c \in failed :
          /\ pc' = c
          /\ failed' = failed \ {c}
    /\ reruns' = reruns + 1
    /\ UNCHANGED <<file, perm, rng, halted, bound, ns, out, calls, nextId,
                   sweep_i, rfe_loop>>

Init ==
    /\ file \in Files
    /\ perm \in Shuffles(NumRows)
    /\ rng = 0
    /\ pc = "imports"
    /\ halted = FALSE
    /\ failed = {}
    /\ reruns = 0
    /\ bound = {}
    /\ ns = [n \in NsNames |-> None]
    /\ out = <<>>
    /\ calls = <<>>
    /\ nextId = 1
    /\ sweep_i = 0
    /\ rfe_loop = None

Next ==
    \/ Cell_imports
    \/ Cell_encode
    \/ Cell_standardize
    \/ Cell_def_run_model
    \/ Cell_baseline
    \/ Cell_poly
    \/ Cell_lr_poly
    \/ Cell_sweep
    \/ Sweep_iter
    \/ Cell_kbest_f
    \/ Cell_kbest_mi
    \/ Cell_rfecv
    \/ Rfe_step
    \/ Cell_rfecv_end
    \/ Cell_lasso1
    \/ Cell_lasso2
    \/ UserResume
    \/ UserRerun

Spec == Init /\ [][Next]_vars

\* the notebook run on a malformed file
InitMalformed ==
    /\ file \in MalformedFiles
    /\ perm \in Shuffles(NumRows)
    /\ rng = 0
    /\ pc = "imports"
    /\ halted = FALSE
    /\ failed = {}
    /\ reruns = 0
    /\ bound = {}
    /\ ns = [n \in NsNames |-> None]
    /\ out = <<>>
    /\ calls = <<>>
    /\ nextId = 1
    /\ sweep_i = 0
    /\ rfe_loop = None

SpecMalformed == InitMalformed /\ [][Next]_vars

(***************************************************************************)
(* The properties.                                                         *)
(***************************************************************************)
\* the rows of the file on either side of the split
TrainingRows == Range(TrainPositions(perm))
TestRows == Range(TestPositions(perm))

\* the fitting classes of the workflow
FittingClasses ==
    {"StandardScaler", "PolynomialFeatures", "VarianceThreshold",
     "SelectKBest", "RFECV", "LinearRegression", "LassoCV"}

\* C1. No leakage: every fit has received rows of the training partition
\* only, and a call that received a row of the test partition is a
\* transform, a predict or a score of an object that had been fitted, on
\* training rows only.
NoLeakage ==
    \A k \in 1..Len(calls) :
        /\ calls[k].op = "fit" => Range(calls[k].rows) \subseteq TrainingRows
        /\ Range(calls[k].rows) \cap TestRows # {} =>
              /\ calls[k].op \in {"transform", "predict", "score"}
              /\ calls[k].was_fitted
              /\ calls[k].fitted_rows # <<>>
              /\ Range(calls[k].fitted_rows) \subseteq TrainingRows

\* every fitting class has been fitted, and test rows have gone through
\* transform, predict and score
NoLeakage_witness ==
    /\ \A c \in FittingClasses :
          \E k \in 1..Len(calls) : calls[k].op = "fit" /\ calls[k].cls = c
    /\ \A o \in {"transform", "predict", "score"} :
          \E k \in 1..Len(calls) :
              calls[k].op = o /\ Range(calls[k].rows) \cap TestRows # {}

\* C2. A run from the top never stops on a name that is not bound: no
\* cell's output is a NameError.
EveryNameBoundBeforeUse ==
    \A k \in 1..Len(out) :
        ~(out[k].label = "Traceback" /\ out[k].value = "NameError")

\* a step of the sweep's loop
SweepStep == pc = "sweep_loop" /\ sweep_i' = sweep_i + 1

\* C3. Monotonic shrinkage: when an iteration of the sweep follows one with
\* a smaller threshold, the columns it retains are among those the earlier
\* one retained, so it retains at most as many.
MonotonicShrinkage ==
    [][(/\ SweepStep
        /\ sweep_i >= 1
        /\ ~halted'
        /\ FracLess(ns.thresh[1], ns.thresh[2], ns'.thresh[1], ns'.thresh[2]))
       => /\ Range(ns'.reduced_feature_train.columns)
                \subseteq Range(ns.reduced_feature_train.columns)
          /\ NCols(ns'.reduced_feature_train) <= NCols(ns.reduced_feature_train)
      ]_vars

\* two thresholds have been applied and columns have been dropped
MonotonicShrinkage_witness ==
    /\ pc = "sweep_loop"
    /\ ~halted
    /\ sweep_i >= 2
    /\ NCols(ns.reduced_feature_train) < NCols(ns.X_poly_train)

\* the columns of X at the positions js, row by row
ColumnsAt(X, js) ==
    [i \in 1..NRows(X) |-> [k \in 1..Len(js) |-> X.num[i][js[k]]]]

\* the positions of X_poly_train whose training variance exceeds thresh
Exceeding ==
    Positions([j \in 1..NCols(ns.X_poly_train) |->
                  ExceedsThreshold(Variance(ns.X_poly_train, j), ns.thresh)])

\* the last iteration of the sweep got through its fit
SweepIterationDone ==
    /\ {"selector", "reduced_feature_train", "reduced_feature_test"}
           \subseteq bound
    /\ ns.selector.kind = "VarianceThreshold"
    /\ IsFitted(ns.selector)
    /\ Exceeding # <<>>

\* C4. Selection rule and mask replay: after an iteration of the sweep the
\* reduced training matrix consists of exactly the columns whose training
\* variance strictly exceeds the threshold, in their order, and the reduced
\* test matrix consists of the columns of the test matrix at the same
\* positions.
SelectionRuleAndMaskReplay ==
    SweepIterationDone =>
        /\ ns.reduced_feature_train.columns =
              [k \in 1..Len(Exceeding) |-> ns.X_poly_train.columns[Exceeding[k]]]
        /\ ns.reduced_feature_train.num = ColumnsAt(ns.X_poly_train, Exceeding)
        /\ ns.reduced_feature_test.columns = ns.reduced_feature_train.columns
        /\ ns.reduced_feature_test.num = ColumnsAt(ns.X_poly_test, Exceeding)

\* an iteration is done in which the test partition's own variances would
\* have kept other columns
SelectionRuleAndMaskReplay_witness ==
    /\ SweepIterationDone
    /\ \E j \in 1..NCols(ns.X_poly_train) :
          ExceedsThreshold(Variance(ns.X_poly_train, j), ns.thresh)
              # ExceedsThreshold(Variance(ns.X_poly_test, j), ns.thresh)

\* no training variance of X exceeds t
AtOrAboveMaximum(X, t) ==
    \A j \in 1..NCols(X) : ~ExceedsThreshold(Variance(X, j), t)

\* C5 as the specification states it: an iteration whose threshold is at
\* or above the largest training variance yields a matrix of zero columns,
\* which the fit and the metrics are given.
EmptySubsetHandedOn ==
    [][(SweepStep /\ AtOrAboveMaximum(ns.X_poly_train, ns'.thresh))
       => /\ "reduced_feature_train" \in bound'
          /\ NCols(ns'.reduced_feature_train) = 0
          /\ \E k \in (Len(calls) + 1)..Len(calls') :
                calls'[k].op = "fit" /\ calls'[k].cls = "LinearRegression"
      ]_vars

\* C5. An iteration whose threshold is at or above the largest training
\* variance ends in the selector's ValueError: nothing guards it, the cell
\* stops there, the reduced matrices and lr stay what they were, and
\* neither the fit nor the metrics are reached.
EdgeThresholdRaises ==
    [][(SweepStep /\ AtOrAboveMaximum(ns.X_poly_train, ns'.thresh))
       => /\ halted'
          /\ pc' = "sweep"
          /\ out'[Len(out')].label = "Traceback"
          /\ out'[Len(out')].value = "ValueError"
          /\ ns'.reduced_feature_train = ns.reduced_feature_train
          /\ ns'.reduced_feature_test = ns.reduced_feature_test
          /\ ns'.lr = ns.lr
          /\ \A k \in (Len(calls) + 1)..Len(calls') :
                calls'[k].op = "fit" /\ calls'[k].cls = "VarianceThreshold"
      ]_vars

\* the sweep has stopped on such a threshold with thresholds left to try
EdgeThresholdRaises_witness ==
    /\ halted
    /\ pc = "sweep"
    /\ AtOrAboveMaximum(ns.X_poly_train, ns.thresh)
    /\ sweep_i < Len(ns.threshold_ranges)

\* the positions in X_poly_train of the columns of the reduced matrix T
PositionsIn(T) ==
    [k \in 1..NCols(T) |-> IndexOf(ns.X_poly_train.columns, T.columns[k])]

\* a SelectKBest cell has run
KBestCellDone ==
    /\ {"selector", "X_k_best_train", "X_k_best_test"} \subseteq bound
    /\ ns.selector.kind = "SelectKBest"
    /\ IsFitted(ns.selector)

\* C6. Univariate filter: the reduced training matrix has exactly the
\* default number k of columns of the training matrix, scored on the
\* training rows; no dropped column scores higher than a retained one; the
\* reduced test matrix consists of the test columns at the same positions.
KBestSelection ==
    KBestCellDone =>
        LET kept == PositionsIn(ns.X_k_best_train)
            scores == ns.selector.fitted.scores
        IN  /\ NCols(ns.X_k_best_train) = SelectKBestDefaultK
            /\ Cardinality(Range(kept)) = SelectKBestDefaultK
            /\ ns.selector.fitted.rows = ns.X_poly_train.src
            /\ ns.X_k_best_train.num = ColumnsAt(ns.X_poly_train, kept)
            /\ \A a \in Range(kept) :
                  \A b \in (1..NCols(ns.X_poly_train)) \ Range(kept) :
                      ~ScoreLess(scores[a], scores[b])
            /\ ns.X_k_best_test.columns = ns.X_k_best_train.columns
            /\ ns.X_k_best_test.num = ColumnsAt(ns.X_poly_test, kept)

\* both cells have run, and the second dropped a column that scores lower
\* than one it retained
KBestSelection_witness ==
    /\ KBestCellDone
    /\ ns.selector.score_func = "mutual_info_regression"
    /\ \E k \in 1..Len(calls) :
          calls[k].cls = "SelectKBest" /\ calls[k].est # ns.selector.id
    /\ \E a \in Range(PositionsIn(ns.X_k_best_train)) :
          \E b \in 1..NCols(ns.X_poly_train) :
              ScoreLess(ns.selector.fitted.scores[b],
                        ns.selector.fitted.scores[a])

\* coef_^2 at position k of support, of a clone fitted on those columns
RankOf(support, k) ==
    CoefSqr(LinFit(Estimator("LinearRegression", 0),
                   SelectColumns(ns.X_poly_train, support), ns.y_train), k)

\* C7. Recursive elimination: each pass of the loop removes exactly one of
\* the surviving features, the one of the smallest squared coefficient, so
\* the survivors after a pass are a strict subset of those before it; a
\* feature is left after every pass, and the loop ends with as many as
\* were asked for, at least one.
EliminationShrinks ==
    [][/\ (pc = "rfecv_loop" /\ pc' = "rfecv_loop") =>
             LET before == rfe_loop.support
                 after == rfe_loop'.support
             IN  /\ Range(after) \subseteq Range(before)
                 /\ Range(after) # Range(before)
                 /\ Len(after) = Len(before) - 1
                 /\ Len(after) >= 1
                 /\ \E k \in 1..Len(before) :
                       /\ before[k] \notin Range(after)
                       /\ \A m \in 1..Len(before) :
                             RankOf(before, k) <= RankOf(before, m)
       /\ (pc = "rfecv_loop" /\ pc' # "rfecv_loop") =>
             /\ Len(rfe_loop.support) = rfe_loop.select
             /\ rfe_loop.select >= 1
             /\ ns'.rfe.fitted.support = rfe_loop.support
      ]_vars

\* the loop has come to its end after removing features
EliminationShrinks_witness ==
    /\ pc = "rfecv_loop"
    /\ Len(rfe_loop.support) = rfe_loop.select
    /\ Len(rfe_loop.support) < NCols(ns.X_poly_train)

\* the RFECV cell has run
RfecvCellDone ==
    /\ {"rfe", "X_rfe_train", "X_rfe_test"} \subseteq bound
    /\ IsFitted(ns.rfe)

\* C8. Depth choice: n_features_ is a number of features from 1 to the
\* number of input columns whose cross-validated score no other such
\* number beats; it is the number printed; the reduced training matrix has
\* that many columns of the training matrix, and the reduced test matrix
\* consists of the test columns at the same positions.
DepthChoice ==
    RfecvCellDone =>
        LET n == ns.rfe.fitted.n_features
            scores == ns.rfe.fitted.grid_scores
            kept == PositionsIn(ns.X_rfe_train)
        IN  /\ n \in 1..NCols(ns.X_poly_train)
            /\ Len(scores) = NCols(ns.X_poly_train)
            /\ \A d \in 1..NCols(ns.X_poly_train) : scores[d] <= scores[n]
            /\ NCols(ns.X_rfe_train) = n
            /\ Cardinality(Range(kept)) = n
            /\ ns.X_rfe_train.num = ColumnsAt(ns.X_poly_train, kept)
            /\ ns.X_rfe_test.columns = ns.X_rfe_train.columns
            /\ ns.X_rfe_test.num = ColumnsAt(ns.X_poly_test, kept)
            /\ \E k \in 1..Len(out) :
                  /\ out[k].label = "The optimal number of features is: "
                  /\ out[k].value = n

\* the cell has run, and some depth scores lower than the chosen one
DepthChoice_witness ==
    /\ RfecvCellDone
    /\ \E d \in 1..NCols(ns.X_poly_train) :
          ns.rfe.fitted.grid_scores[d]
              < ns.rfe.fitted.grid_scores[ns.rfe.fitted.n_features]

\* the lines run_model printed for the model of identity id
MetricsOf(id) ==
    {k \in 1..Len(out) :
        /\ out[k].label \in {"Training R^2 :", "Testing R^2 :",
                             "Training Root Mean Square Error",
                             "Testing Root Mean Square Error"}
        /\ out[k].value.est = id}

\* a Lasso cell has run for the name
LassoCellDone(name) == name \in bound /\ IsFitted(ns[name])

\* C9. LassoCV: alpha_ is a member of the grid whose cross-validated error
\* no other member undercuts; it is the strength printed; and every metric
\* run_model printed for the model comes from coefficients fitted with
\* that strength on the training matrix given.
AlphaChoice ==
    \A name \in {"lasso", "lasso2"} :
        LassoCellDone(name) =>
            LET f == ns[name].fitted
            IN  /\ f.alpha \in 1..ns[name].n_alphas
                /\ Len(f.mse) = ns[name].n_alphas
                /\ \A a \in 1..ns[name].n_alphas : f.mse[f.alpha] <= f.mse[a]
                /\ MetricsOf(ns[name].id) # {}
                /\ \A k \in MetricsOf(ns[name].id) :
                      out[k].value.coef = [digest |-> f.digest,
                                           alpha |-> f.alpha]
                /\ \E k \in 1..Len(out) :
                      /\ out[k].label =
                           "The optimal alpha for the Lasso Regression is: "
                      /\ out[k].value = f.alpha

\* both Lasso cells have run, and in one some strength has a larger error
\* than the chosen one
AlphaChoice_witness ==
    /\ LassoCellDone("lasso")
    /\ LassoCellDone("lasso2")
    /\ \E a \in 1..ns.lasso2.n_alphas :
          ns.lasso2.fitted.mse[ns.lasso2.fitted.alpha] < ns.lasso2.fitted.mse[a]

\* the terms of the expansion with n factors of which d are distinct
TermsOf(n, d) ==
    {t \in 1..Len(ns.poly.fitted.terms) :
        /\ Len(ns.poly.fitted.terms[t]) = n
        /\ Cardinality(Range(ns.poly.fitted.terms[t])) = d}

\* C10. Shape of the expansion: the standardized matrices have the rows of
\* their partition and the 10 predictors; the expanded ones have the same
\* rows and exactly 65 columns: the 10 predictors, their 10 squares and
\* their 45 pairwise products.
ExpansionShape ==
    /\ {"X_train_transformed", "X_test_transformed"} \subseteq bound =>
          /\ ns.X_train_transformed.src = TrainPositions(perm)
          /\ ns.X_test_transformed.src = TestPositions(perm)
          /\ ns.X_train_transformed.columns =
                <<"AGE", "BMI", "BP", "S1", "S2", "S3", "S4", "S5", "S6",
                  "female">>
          /\ ns.X_test_transformed.columns = ns.X_train_transformed.columns
    /\ {"X_poly_train", "X_poly_test"} \subseteq bound =>
          /\ ns.X_poly_train.src = TrainPositions(perm)
          /\ ns.X_poly_test.src = TestPositions(perm)
          /\ NRows(ns.X_poly_train) + NRows(ns.X_poly_test) = NumRows
          /\ NCols(ns.X_poly_train) = 65
          /\ NCols(ns.X_poly_test) = 65
          /\ \A i \in 1..NRows(ns.X_poly_train) :
                Len(ns.X_poly_train.num[i]) = 65
          /\ \A i \in 1..NRows(ns.X_poly_test) :
                Len(ns.X_poly_test.num[i]) = 65
          /\ Cardinality(Range(ns.X_poly_train.columns)) = 65
          /\ Cardinality(TermsOf(1, 1)) = 10
          /\ Cardinality(TermsOf(2, 1)) = 10
          /\ Cardinality(TermsOf(2, 2)) = 45

\* both partitions have been standardized and expanded
ExpansionShape_witness ==
    /\ {"X_poly_train", "X_poly_test"} \subseteq bound
    /\ NRows(ns.X_poly_train) > 0
    /\ NRows(ns.X_poly_test) > 0

\* C11 as the notebook's narrative states it: the expansion adds the terms
\* of degree up to 3, and the expanded matrices have 285 columns.
NarrativeExpansionShape ==
    {"X_poly_train", "X_poly_test"} \subseteq bound =>
        /\ NCols(ns.X_poly_train) = 285
        /\ NCols(ns.X_poly_test) = 285
        /\ \E t \in 1..Len(ns.poly.fitted.terms) :
              Len(ns.poly.fitted.terms[t]) = 3

\* the calls of run_model in the notebook: model, training matrix, test
\* matrix (the targets are y_train and y_test in all of them)
RunModelSites ==
    {<<"lm", "X_train_transformed", "X_test_transformed">>,
     <<"lr_poly", "X_poly_train", "X_poly_test">>,
     <<"lr", "reduced_feature_train", "reduced_feature_test">>,
     <<"lr", "X_k_best_train", "X_k_best_test">>,
     <<"lm", "X_rfe_train", "X_rfe_test">>,
     <<"lasso", "X_train_transformed", "X_test_transformed">>,
     <<"lasso2", "X_poly_train", "X_poly_test">>}

\* the model of the site is fitted and the matrices have its columns
SiteReady(site) ==
    /\ {site[1], site[2], site[3], "y_train", "y_test", "run_model"}
           \subseteq bound
    /\ PredictError(ns[site[1]], ns[site[2]]) = ""
    /\ PredictError(ns[site[1]], ns[site[3]]) = ""

\* the result of calling run_model at the site in the current state
RunModelAt(site) ==
    run_model(Kernel, ns[site[1]], ns[site[2]], ns[site[3]],
              ns.y_train, ns.y_test)

\* the labels of the lines run_model prints, in order
RunModelLabels ==
    <<"Training R^2 :", "Training Root Mean Square Error",
      "----------------",
      "Testing R^2 :", "Testing Root Mean Square Error">>

\* what line k of run_model's output must be computed from
ExpectedMetric(site, k) ==
    [metric |-> IF k \in {1, 4} THEN "r2" ELSE "rmse",
     est |-> ns[site[1]].id,
     rows |-> IF k < 3 THEN ns[site[2]].src ELSE ns[site[3]].src,
     y |-> IF k < 3 THEN ns.y_train.src ELSE ns.y_test.src,
     coef |-> CoefOf(ns[site[1]])]

\* C12. run_model prints R^2 and RMSE of the training partition and then
\* R^2 and RMSE of the test partition, each computed by the model given
\* from the matrix and target of the partition it is labelled with, and
\* does nothing else: the namespace (the model's fitted parameters and
\* the four tables in it) is unchanged, earlier output is kept, and the
\* only calls made are score and predict of the model.  All metrics the
\* cells have printed are of the partition they are labelled with.
RunModelReportsOnly ==
    /\ \A site \in RunModelSites :
          SiteReady(site) =>
              LET r == RunModelAt(site)
              IN  /\ r.err = ""
                  /\ r.ns = ns
                  /\ r.bound = bound
                  /\ r.nextId = nextId
                  /\ Len(r.out) = Len(out) + 5
                  /\ SubSeq(r.out, 1, Len(out)) = out
                  /\ \A k \in 1..5 :
                        /\ r.out[Len(out) + k].label = RunModelLabels[k]
                        /\ k # 3 => r.out[Len(out) + k].value
                                        = ExpectedMetric(site, k)
                  /\ Len(r.calls) = Len(calls) + 4
                  /\ \A k \in (Len(calls) + 1)..Len(r.calls) :
                        /\ r.calls[k].op \in {"score", "predict"}
                        /\ r.calls[k].est = ns[site[1]].id
    /\ \A k \in 1..Len(out) :
          /\ out[k].label \in {RunModelLabels[1], RunModelLabels[2]} =>
                Range(out[k].value.rows) = TrainingRows
          /\ out[k].label \in {RunModelLabels[4], RunModelLabels[5]} =>
                Range(out[k].value.rows) = TestRows

\* five of the notebook's calls of run_model can be made (the other two
\* need lm and lr as they were before they were rebound), and the cells
\* have printed test metrics
RunModelReportsOnly_witness ==
    /\ Cardinality({site \in RunModelSites : SiteReady(site)}) >= 5
    /\ \E k \in 1..Len(out) : out[k].label = RunModelLabels[5]

\* what the cell of mutual_info_regression prints when the random
\* generator draws r
OutputOfDraw(r) ==
    RunStmts(Stmts("kbest_mi"), [Kernel EXCEPT !.rng = r]).out

\* C13 as the specification states it: the split is fixed by its seed, so
\* two runs on the same file print the same linear-regression metrics:
\* what a cell prints does not depend on what the random generator draws.
SameMetricsEveryRun ==
    [][/\ perm' = perm
       /\ (pc = "kbest_mi" /\ ~halted) =>
             \A r \in 1..NumSeeds : out' = OutputOfDraw(r)
      ]_vars

\* a fit of the scaler or of a model has been made
SomeFitMade ==
    \E k \in 1..Len(calls) :
        /\ calls[k].op = "fit"
        /\ calls[k].cls \in {"StandardScaler", "LinearRegression", "LassoCV"}

\* T has no SEX and no Y column and one female column that holds 0 or 1
Encoded(T) ==
    /\ "SEX" \notin Range(T.columns)
    /\ "Y" \notin Range(T.columns)
    /\ Cardinality({j \in 1..NCols(T) : T.columns[j] = "female"}) = 1
    /\ \A i \in 1..NRows(T) :
          T.num[i][IndexOf(T.columns, "female")] \in {0, 1}

\* the names the model objects of the notebook are bound to
ModelNames == {"lm", "lr_poly", "lr", "lasso", "lasso2"}

\* the matrices whose columns are terms of the expansion
ExpandedNames ==
    {"X_poly_train", "X_poly_test", "reduced_feature_train",
     "reduced_feature_test", "X_k_best_train", "X_k_best_test",
     "X_rfe_train", "X_rfe_test"}

\* C14. Encoding before modelling: once the scaler or a model has been
\* fitted, the feature table and both its partitions have no SEX and no Y
\* column and exactly one column female, of values 0 and 1; every other
\* matrix a fit is given has columns made of those predictors only; the
\* targets have one value per row of their partition, and every fitted
\* model was given a target value for each row of its matrix, of that row.
EncodedBeforeModelling ==
    SomeFitMade =>
        /\ Encoded(ns.features)
        /\ Encoded(ns.X_train)
        /\ Encoded(ns.X_test)
        /\ NRows(ns.features) = Len(ns.target.val)
        /\ ns.X_train.src = ns.y_train.src
        /\ ns.X_test.src = ns.y_test.src
        /\ Len(ns.y_train.val) = NRows(ns.X_train)
        /\ Len(ns.y_test.val) = NRows(ns.X_test)
        /\ \A n \in {"X_train_transformed", "X_test_transformed"} \cap bound :
              Encoded(ns[n])
        /\ \A n \in ExpandedNames \cap bound :
              \A j \in 1..NCols(ns[n]) :
                  Range(ns[n].columns[j]) \subseteq Range(ns.features.columns)
        /\ \A n \in ModelNames \cap bound :
              IsFitted(ns[n]) => ns[n].fitted.rows = ns[n].fitted.y

\* models have been fitted on standardized, expanded and selected
\* matrices, and both sexes occur in the training partition
EncodedBeforeModelling_witness ==
    /\ {"lm", "lr_poly", "lr", "lasso2"} \subseteq bound
    /\ IsFitted(ns.lasso2)
    /\ \E i, k \in 1..NRows(ns.X_train) :
          /\ ns.X_train.num[i][IndexOf(ns.X_train.columns, "female")] = 0
          /\ ns.X_train.num[k][IndexOf(ns.X_train.columns, "female")] = 1

\* the classes of the selectors and models of the experiments
ExperimentClasses ==
    {"VarianceThreshold", "SelectKBest", "RFECV", "LinearRegression",
     "LassoCV"}

\* the first identity the experiment under way has constructed or will
\* construct: the RFECV cell constructed its objects before its loop
ExperimentStart ==
    IF pc = "rfecv_loop" THEN ns.rfe.estimator.id ELSE nextId

\* the calls a step adds to the log
NewCalls == {k \in (Len(calls) + 1)..Len(calls') : TRUE}

\* C15. Fresh entities per experiment: in every step of the notebook, each
\* call of fit, transform, predict or score on a selector or a model is
\* made on an object constructed in the experiment under way (or, inside
\* RFECV, on a clone the library made for that fit), each fit is the first
\* fit of its object, each transform, predict and score uses an object
\* fitted in the same experiment, and every metric printed comes from
\* such an object.
FreshEntitiesPerExperiment ==
    [][/\ \A k \in NewCalls :
             calls'[k].cls \in ExperimentClasses =>
                /\ \/ calls'[k].est >= ExperimentStart
                   \/ (calls'[k].est = 0 /\ calls'[k].op = "fit")
                /\ calls'[k].op = "fit" => ~calls'[k].was_fitted
                /\ calls'[k].op \in {"transform", "predict", "score"} =>
                      /\ calls'[k].was_fitted
                      /\ \E f \in 1..(k - 1) :
                            /\ calls'[f].op = "fit"
                            /\ calls'[f].est = calls'[k].est
                            /\ (f > Len(calls) \/ pc = "rfecv_loop")
       /\ \A k \in (Len(out) + 1)..Len(out') :
             out'[k].label \in Range(RunModelLabels) \ {"----------------"} =>
                out'[k].value.est >= ExperimentStart]_vars

\* a later experiment has fitted and scored its own model while the
\* objects of the earlier ones were discarded: the names were rebound
FreshEntitiesPerExperiment_witness ==
    /\ pc = "done"
    /\ Cardinality({calls[k].est : k \in
          {i \in 1..Len(calls) : /\ calls[i].op = "score"
                                 /\ calls[i].cls = "LinearRegression"}}) >= 6
    /\ Cardinality({calls[k].est : k \in
          {i \in 1..Len(calls) : /\ calls[i].op = "transform"
                                 /\ calls[i].cls = "SelectKBest"}}) = 2

\* the rows of the file a table or a series holds
SrcSet(T) == Range(T.src)

\* C17. The split is a partition: once the split is made, no row of the
\* file is in both the training and the test partition, every row is in
\* one of them, no row occurs twice, the test partition has
\* ceil(0.2 * n) rows and the training partition the rest, the targets
\* are split on the same rows in the same order, and each partition's
\* rows and targets are those of the feature table and the target.
SplitIsPartition ==
    "X_train" \in bound =>
        LET n == NRows(ns.features)
            nt == NRows(ns.X_test)
        IN  /\ SrcSet(ns.X_train) \cap SrcSet(ns.X_test) = {}
            /\ SrcSet(ns.X_train) \cup SrcSet(ns.X_test) = SrcSet(ns.features)
            /\ SrcSet(ns.features) = 1..Len(file.rows)
            /\ Cardinality(SrcSet(ns.X_train)) = NRows(ns.X_train)
            /\ Cardinality(SrcSet(ns.X_test)) = nt
            /\ nt * TestSizeDen >= n
            /\ (nt - 1) * TestSizeDen < n
            /\ NRows(ns.X_train) = n - nt
            /\ ns.y_train.src = ns.X_train.src
            /\ ns.y_test.src = ns.X_test.src
            /\ \A P \in {<<ns.X_train, ns.y_train>>, <<ns.X_test, ns.y_test>>} :
                  \A i \in 1..NRows(P[1]) :
                      LET r == IndexOf(ns.features.src, P[1].src[i])
                      IN  /\ P[1].num[i] = ns.features.num[r]
                          /\ P[2].val[i] = ns.target.val[r]
                          /\ ns.target.src[r] = P[1].src[i]

\* the split has been made and both partitions have rows, the training
\* partition is not a leading or trailing block of the file
SplitIsPartition_witness ==
    /\ "X_train" \in bound
    /\ NRows(ns.X_test) = 2
    /\ NRows(ns.X_train) = NumRows - 2
    /\ \E i \in 1..(NRows(ns.X_train) - 1) :
          ns.X_train.src[i] > ns.X_train.src[i + 1]

\* the matrices of the training rows and of the test rows
TrainFamily ==
    {"transformed_training_features", "X_train_transformed", "X_poly_train",
     "reduced_feature_train", "X_k_best_train", "X_rfe_train"}

TestFamily ==
    {"transformed_testing_features", "X_test_transformed", "X_poly_test",
     "reduced_feature_test", "X_k_best_test", "X_rfe_test"}

\* the value the file holds for patient r in the column called name
FileValue(r, name) == file.rows[r][IndexOf(file.header, name)]

\* the indicator of patient r: 1 for the larger of the two SEX codes
FemaleOf(r) ==
    IF \A q \in 1..Len(file.rows) : FileValue(q, "SEX") <= FileValue(r, "SEX")
    THEN 1 ELSE 0

\* n times (x - mean) for patient r in the column called name, the mean
\* taken over the n patients of the training partition
CentredOf(r, name) ==
    LET rows == ns.y_train.src
    IN  Len(rows) * FileValue(r, name)
            - SeqSum([i \in 1..Len(rows) |-> FileValue(rows[i], name)])

\* the product of the entries of row that the factors of a term name
RECURSIVE FactorProduct(_, _, _)
FactorProduct(row, columns, factors) ==
    IF factors = <<>> THEN 1
    ELSE row[IndexOf(columns, Head(factors))]
            * FactorProduct(row, columns, Tail(factors))

\* row i of the standardized table S holds patient y.src[i]'s values
StandardizedAligned(S, y) ==
    /\ NCols(S) = 10
    /\ \A i \in 1..NRows(S) :
          \A j \in 1..NCols(S) :
              S.num[i][j] = IF S.columns[j] = "female"
                            THEN FemaleOf(y.src[i])
                            ELSE CentredOf(y.src[i], S.columns[j])

\* row i of the expanded table E is made of row i of the standardized S
ExpandedAligned(E, S) ==
    \A i \in 1..NRows(E) :
        \A t \in 1..NCols(E) :
            E.num[i][t] = FactorProduct(S.num[i], S.columns, E.columns[t])

\* the selected table R holds columns of the expanded E, row for row
SelectedAligned(R, E) ==
    \A j \in 1..NCols(R) :
        \E t \in 1..NCols(E) :
            /\ E.columns[t] = R.columns[j]
            /\ \A i \in 1..NRows(R) : R.num[i][j] = E.num[i][t]

\* C18. Row alignment survives every stage: every matrix made from the
\* training rows has, in row i, values derived from the patient whose
\* target is value i of y_train, and likewise for the test rows and
\* y_test: the targets are the file's Y of those patients, the standardized
\* values and the re-attached indicator are those patients', the expanded
\* rows are products of the same row, and the selected columns are columns
\* of the expanded matrix row for row.
RowAlignment ==
    "y_train" \in bound =>
        /\ \A i \in 1..Len(ns.y_train.val) :
              ns.y_train.val[i] = FileValue(ns.y_train.src[i], "Y")
        /\ \A i \in 1..Len(ns.y_test.val) :
              ns.y_test.val[i] = FileValue(ns.y_test.src[i], "Y")
        /\ \A n \in TrainFamily \cap bound : ns[n].src = ns.y_train.src
        /\ \A n \in TestFamily \cap bound : ns[n].src = ns.y_test.src
        /\ "X_train_transformed" \in bound =>
              StandardizedAligned(ns.X_train_transformed, ns.y_train)
        /\ "X_test_transformed" \in bound =>
              StandardizedAligned(ns.X_test_transformed, ns.y_test)
        /\ "X_poly_train" \in bound =>
              ExpandedAligned(ns.X_poly_train, ns.X_train_transformed)
        /\ "X_poly_test" \in bound =>
              ExpandedAligned(ns.X_poly_test, ns.X_test_transformed)
        /\ \A n \in {"reduced_feature_train", "X_k_best_train", "X_rfe_train"}
                       \cap bound : SelectedAligned(ns[n], ns.X_poly_train)
        /\ \A n \in {"reduced_feature_test", "X_k_best_test", "X_rfe_test"}
                       \cap bound : SelectedAligned(ns[n], ns.X_poly_test)

\* every stage has produced its matrices, the training rows are not in the
\* file's order, and the two sexes are mixed in the training partition
RowAlignment_witness ==
    /\ (TrainFamily \cup TestFamily) \subseteq bound
    /\ \E i \in 1..(Len(ns.y_train.src) - 1) :
          ns.y_train.src[i] > ns.y_train.src[i + 1]
    /\ \E i, k \in 1..Len(ns.y_train.src) :
          /\ i < k
          /\ FemaleOf(ns.y_train.src[i]) # FemaleOf(ns.y_train.src[k])

\* the standardized table S keeps the indicator of the unscaled table U
\* as it is, in the same rows and under the same labels and columns
IndicatorKept(S, U) ==
    /\ S.columns = U.columns
    /\ S.index = U.index
    /\ S.src = U.src
    /\ S.s2[NCols(S)] = <<1, 1>>
    /\ \A i \in 1..NRows(S) :
          /\ S.num[i][NCols(S)] = U.num[i][NCols(U)]
          /\ S.num[i][NCols(S)] \in {0, 1}

\* C19. The indicator is never standardized: when the standardized tables
\* exist, female is the last of the 10 columns of the feature table, the
\* scaler was fitted on exactly the 9 others and its outputs have exactly
\* those 9 columns, and in X_train_transformed and X_test_transformed the
\* column female holds the unscaled 0/1 value of the same row, the columns
\* being in the order of the unscaled feature table.
IndicatorNeverStandardized ==
    "X_test_transformed" \in bound =>
        LET others == SubSeq(ns.features.columns, 1, 9)
        IN  /\ NCols(ns.features) = 10
            /\ ns.features.columns[10] = "female"
            /\ "female" \notin Range(others)
            /\ ns.X_train.columns = ns.features.columns
            /\ ns.X_test.columns = ns.features.columns
            /\ ns.scaler.fitted.columns = others
            /\ Len(ns.scaler.fitted.sums) = 9
            /\ ns.transformed_training_features.columns = others
            /\ ns.transformed_testing_features.columns = others
            /\ IndicatorKept(ns.X_train_transformed, ns.X_train)
            /\ IndicatorKept(ns.X_test_transformed, ns.X_test)
            /\ \A j \in 1..9 :
                  /\ ns.X_train_transformed.s2[j] = ns.scaler.fitted.s2[j]
                  /\ ns.X_test_transformed.s2[j] = ns.scaler.fitted.s2[j]

\* the standardized tables exist, the indicator takes both values in the
\* training rows, and some other column was rescaled
IndicatorNeverStandardized_witness ==
    /\ "X_test_transformed" \in bound
    /\ {ns.X_train_transformed.num[i][10] :
           i \in 1..NRows(ns.X_train_transformed)} = {0, 1}
    /\ \E j \in 1..9 : ns.X_train_transformed.s2[j] # <<1, 1>>
    /\ \E i \in 1..NRows(ns.X_train_transformed) :
          \E j \in 1..9 :
              ns.X_train_transformed.num[i][j] # ns.X_train.num[i][j]

\* the labels of the lines run_model prints numbers under
MetricLabels == Range(RunModelLabels) \ {"----------------"}

\* the positions of the output that show an exception
Tracebacks == {k \in 1..Len(out) : out[k].label = "Traceback"}

\* the SEX column of the file does not have exactly two categories, a
\* number and a word being different categories
SexNotBinary ==
    Cardinality({<<(<<r, "SEX">> \in file.text), FileValue(r, "SEX")>> :
                    r \in 1..Len(file.rows)}) # 2

\* the cell that first reads what is wrong with the file, and the exception
\* it ends in; "none" when nothing in the file stops a cell
Meets ==
    IF "Y" \notin Range(file.header) \/ "SEX" \notin Range(file.header)
    THEN <<"encode", "KeyError">>
    ELSE IF SexNotBinary THEN <<"encode", "ValueError">>
    ELSE IF \E c \in file.text : c[2] \notin {"SEX", "Y"}
    THEN <<"standardize", "ValueError">>
    ELSE IF \E c \in file.text : c[2] = "Y"
    THEN <<"baseline", "ValueError">>
    ELSE <<"none", "">>

\* the cells from the top of the notebook down to cell c
CellsDownTo(c) == Range(SubSeq(Cells, 1, IndexOf(Cells, c)))

\* what holds of a malformed file in every state
MalformedFileStops ==
    IF Meets[1] = "none"
    THEN /\ failed \cap CellsDownTo("lr_poly") = {}
         /\ pc \notin CellsDownTo("baseline") =>
               \E k \in 1..Len(out) : out[k].label = "Testing R^2 :"
    ELSE /\ pc \notin CellsDownTo(Meets[1]) => Tracebacks # {}
         /\ Tracebacks # {} =>
               LET first == CHOOSE k \in Tracebacks :
                                \A j \in Tracebacks : k <= j
               IN  /\ out[first].value = Meets[2]
                   /\ Cardinality(Tracebacks) = 1 /\ halted => pc = Meets[1]
                   /\ \A j \in 1..(first - 1) :
                         out[j].label \in MetricLabels =>
                            /\ Meets[1] = "baseline"
                            /\ out[j].value.rows = ns.y_train.src
         /\ \A k \in 1..Len(out) :
               out[k].label \notin {"Testing R^2 :",
                                    "Testing Root Mean Square Error"}

====
